---- MODULE Spec2Model ----
(***************************************************************************)
(* A model of src/search/BracketsSearchCursor.js: the document line index, *)
(* the regular-expression match indexer (GroupArray of start/end offsets,  *)
(* two-part cursor-relative scan, binary search by offset) and the search  *)
(* cursor built on them, with the module-wide document cache.              *)
(*                                                                         *)
(* Conventions.  Offsets, lines and columns are 0-based as in the code; a  *)
(* TLA+ sequence is 1-based, so the code's a[i] is written a[i + 1].  A    *)
(* text is a sequence of one-character strings.  JavaScript's undefined,   *)
(* false and NaN, where a number may also stand, are the negative          *)
(* sentinels JsUndefined, JsFalse and JsNaN (below every number the program  *)
(* computes).  An object reference that may be undefined or null is a      *)
(* sequence of length 0 or 1.                                              *)
(***************************************************************************)
EXTENDS Integers, Sequences, FiniteSets, TLC

VARIABLES
    docText,        \* document -> its text (doc.getValue())
    docGeneration,  \* document -> doc.history.generation
    documentMap,    \* _documentMap: document -> <<>> or <<{text, index, generation}>>
    cursor,         \* cursor id -> the fields of the search cursor object
    last            \* the last call made and what it returned to its caller

vars == <<docText, docGeneration, documentMap, cursor, last>>

---------------------------------------------------------------------------
(* Bounds of the model *)

\* Longest document text of the scan specification
MaxLen == 4
\* Largest maxResults a caller passes in the scan specification
ScanMaxResults == 2
\* Largest maxResults a caller passes in the cursor specifications
MaxResultsBound == 1
\* Number of document edits in a behaviour
MaxEdits == 1
MaxDetail == 2
MaxStart == 4
PatternLines == 18
PatternDetail == 14

---------------------------------------------------------------------------
(* JavaScript values *)

JsUndefined == 0 - 101
JsFalse == 0 - 102
JsNaN == 0 - 103

\* ToBoolean of a number-or-sentinel: 0, NaN, undefined and false are falsy
Truthy(v) == v > 0

\* a || b on numbers-or-sentinels
OrElse(a, b) == IF Truthy(a) THEN a ELSE b

\* a > b, a <= b ... with NaN or undefined on either side are false
JsGreater(a, b) == a >= 0 /\ b >= 0 /\ a > b

\* a + b, NaN when either side is NaN or undefined
JsPlus(a, b) == IF a < 0 \/ b < 0 THEN JsNaN ELSE a + b

None == <<>>
Some(x) == <<x>>
Option(S) == {None} \cup {Some(x) : x \in S}

---------------------------------------------------------------------------
(* Documents: texts over a three-letter alphabet; "\n" is the line         *)
(* separator, "a" and "A" differ only in case.                             *)

LineSeparator == <<"\n">>
Chars == {"a", "A", "\n"}

RECURSIVE TextsOfLen(_)
TextsOfLen(n) ==
    IF n = 0 THEN {<<>>}
    ELSE {Append(t, c) : t \in TextsOfLen(n - 1), c \in Chars}

AllTexts == UNION {TextsOfLen(n) : n \in 0..MaxLen}

\* String.prototype.toLowerCase on one character
Lower(c) == IF c = "A" THEN "a" ELSE c

\* text.split(lineSeparator) for a one-character separator
RECURSIVE SplitFrom(_, _, _, _)
SplitFrom(text, sep, i, cur) ==
    IF i > Len(text) THEN <<cur>>
    ELSE IF text[i] = sep[1] THEN <<cur>> \o SplitFrom(text, sep, i + 1, <<>>)
    ELSE SplitFrom(text, sep, i + 1, Append(cur, text[i]))

Split(text, sep) == SplitFrom(text, sep, 1, <<>>)

\* doc.lineCount()
LineCount(text) == Len(Split(text, LineSeparator))

---------------------------------------------------------------------------
(* The line index *)

RECURSIVE CountLoop(_, _, _, _, _)
CountLoop(lines, lineSeparatorLength, lineNumber, totalCharacterCount, index) ==
    IF lineNumber < Len(lines)
    THEN LET total == totalCharacterCount + Len(lines[lineNumber + 1]) + lineSeparatorLength
         IN CountLoop(lines, lineSeparatorLength, lineNumber + 1, total, Append(index, total))
    ELSE index

_createLineCharacterCountIndex(text, lineSeparator) ==
    CountLoop(Split(text, lineSeparator), Len(lineSeparator), 0, 0, <<>>)

\* The smallest line >= startSearchingWithLine whose cumulative count exceeds
\* the index; the loop falls through (undefined) when there is none.
RECURSIVE _lineFromIndex(_, _, _)
_lineFromIndex(lineCharacterCountIndexArray, startSearchingWithLine, indexWithinDoc) ==
    IF startSearchingWithLine < Len(lineCharacterCountIndexArray)
    THEN IF lineCharacterCountIndexArray[startSearchingWithLine + 1] > indexWithinDoc
         THEN startSearchingWithLine
         ELSE _lineFromIndex(lineCharacterCountIndexArray, startSearchingWithLine + 1,
                             indexWithinDoc)
    ELSE JsUndefined

Pos(line, ch) == [line |-> line, ch |-> ch]
Range(from, to) == [from |-> from, to |-> to]

\* A conversion that takes the line's own count for the previous line's
PosFromEndOfLine(lineCharacterCountIndexArray, startSearchingWithLine, indexWithinDoc) ==
    LET lineNumber == _lineFromIndex(lineCharacterCountIndexArray, startSearchingWithLine,
                                     indexWithinDoc)
        previousLineEndingCharacterIndex ==
            IF lineNumber > 0 THEN lineCharacterCountIndexArray[lineNumber + 1] ELSE 0
    IN Pos(lineNumber, indexWithinDoc - previousLineEndingCharacterIndex)

_createPosFromIndex(lineCharacterCountIndexArray, startSearchingWithLine, indexWithinDoc) ==
    LET lineNumber == _lineFromIndex(lineCharacterCountIndexArray, startSearchingWithLine,
                                     indexWithinDoc)
        previousLineEndingCharacterIndex ==
            IF lineNumber > 0 THEN lineCharacterCountIndexArray[lineNumber] ELSE 0
    IN Pos(lineNumber, indexWithinDoc - previousLineEndingCharacterIndex)

\* An offset that leaves out the characters before the second line
IndexFromPosPastSecondLine(lineCharacterCountIndexArray, pos) ==
    LET indexAtStartOfLine ==
            IF pos.line > 1
            THEN IF pos.line - 1 < Len(lineCharacterCountIndexArray)
                 THEN lineCharacterCountIndexArray[pos.line]
                 ELSE JsUndefined
            ELSE 0
    IN JsPlus(indexAtStartOfLine, pos.ch)

\* lineCharacterCountIndexArray[pos.line - 1] is undefined past the array's end,
\* and undefined + pos.ch is NaN.
_indexFromPos(lineCharacterCountIndexArray, pos) ==
    LET indexAtStartOfLine ==
            IF pos.line > 0
            THEN IF pos.line - 1 < Len(lineCharacterCountIndexArray)
                 THEN lineCharacterCountIndexArray[pos.line]
                 ELSE JsUndefined
            ELSE 0
    IN JsPlus(indexAtStartOfLine, pos.ch)

_createSearchResult(docLineIndex, indexStart, indexEnd, startLine) ==
    LET line0 == IF startLine = JsUndefined THEN 0 ELSE startLine
        fromPos == _createPosFromIndex(docLineIndex, line0, indexStart)
        toPos == _createPosFromIndex(docLineIndex, fromPos.line, indexEnd)
    IN Range(fromPos, toPos)

---------------------------------------------------------------------------
(* The host's regular expressions.  A compiled RegExp is its source and    *)
(* its ignoreCase flag (the code always compiles with "g" and "m").  The   *)
(* sources of the model are literals and a last starred atom, for which    *)
(* greedy matching never backtracks.                                       *)

Atom(ch, star) == [ch |-> ch, star |-> star]

Atoms(source) ==
    CASE source = "a" -> <<Atom("a", FALSE)>>
      [] source = "aa" -> <<Atom("a", FALSE), Atom("a", FALSE)>>
      [] source = "a*" -> <<Atom("a", TRUE)>>
      [] source = ".*" -> <<Atom(".", TRUE)>>
      [] source = "\n\n" -> <<Atom("\n", FALSE), Atom("\n", FALSE)>>

CharMatches(atom, c, ignoreCase) ==
    IF atom.ch = "." THEN c # "\n"
    ELSE IF ignoreCase THEN Lower(atom.ch) = Lower(c)
    ELSE atom.ch = c

RECURSIVE GreedyEnd(_, _, _, _)
GreedyEnd(atom, text, i, ignoreCase) ==
    IF i < Len(text) /\ CharMatches(atom, text[i + 1], ignoreCase)
    THEN GreedyEnd(atom, text, i + 1, ignoreCase)
    ELSE i

\* The end offset of the match that starts exactly at offset i, or JsUndefined
RECURSIVE MatchAtoms(_, _, _, _, _)
MatchAtoms(atoms, k, text, i, ignoreCase) ==
    IF k > Len(atoms) THEN i
    ELSE IF atoms[k].star
    THEN MatchAtoms(atoms, k + 1, text, GreedyEnd(atoms[k], text, i, ignoreCase), ignoreCase)
    ELSE IF i < Len(text) /\ CharMatches(atoms[k], text[i + 1], ignoreCase)
    THEN MatchAtoms(atoms, k + 1, text, i + 1, ignoreCase)
    ELSE JsUndefined

MatchEndAt(regex, text, i) == MatchAtoms(Atoms(regex.source), 1, text, i, regex.ignoreCase)

\* RegExp.prototype.exec of a global regex: the leftmost match at or after
\* lastIndex (ToLength makes NaN 0); null, and lastIndex 0, when there is
\* none or lastIndex is past the end of the text.
RECURSIVE ExecFrom(_, _, _)
ExecFrom(regex, text, i) ==
    IF i > Len(text) THEN [matched |-> FALSE, index |-> 0, lastIndex |-> 0]
    ELSE IF MatchEndAt(regex, text, i) # JsUndefined
    THEN [matched |-> TRUE, index |-> i, lastIndex |-> MatchEndAt(regex, text, i)]
    ELSE ExecFrom(regex, text, i + 1)

\* An exec that gives null already when lastIndex is at the end of the text
ExecNullAtEnd(regex, text, lastIndex) ==
    IF lastIndex >= Len(text) THEN [matched |-> FALSE, index |-> 0, lastIndex |-> 0]
    ELSE ExecFrom(regex, text, IF lastIndex < 0 THEN 0 ELSE lastIndex)

Exec(regex, text, lastIndex) == ExecFrom(regex, text, IF lastIndex < 0 THEN 0 ELSE lastIndex)

\* new RegExp(source, ignoreCase ? "igm" : "gm"); a string query is escaped
\* first, which leaves a string of letters as it is.
_convertToRegularExpression(stringOrRegex, ignoreCase) ==
    [source |-> stringOrRegex.source, ignoreCase |-> ignoreCase]

---------------------------------------------------------------------------
(* The group array and the two-part scan *)

DefaultMaxResults == 10000000
GroupSize == 2

\* array[index] = value on a JavaScript array: a write at the end appends
SetAt(array, index, value) ==
    IF index < Len(array) THEN [array EXCEPT ![index + 1] = value]
    ELSE Append(array, value)

itemCount(array) == Len(array) \div GroupSize
getGroupValue(array, groupNumber, valueIndexWithinGroup) ==
    array[(GroupSize * groupNumber) + valueIndexWithinGroup + 1]

\* A loop test that lets one match more than the limit be stored
SearchStopsPastLimit(index, matchCountLimit, lastIndex, searchEndIndex) ==
    (index > matchCountLimit) \/ (lastIndex > searchEndIndex)

\* The test that ends the search loop after a match was stored
SearchMustStop(index, matchCountLimit, lastIndex, searchEndIndex) ==
    (index >= matchCountLimit) \/ (lastIndex > searchEndIndex)

\* query.lastIndex after a match was stored: a zero-length match advances it
AdvanceLastIndex(matchIndex, lastIndex) ==
    IF matchIndex = lastIndex THEN lastIndex + 1 ELSE lastIndex

\* The search loop, entered with query.lastIndex = lastIndex: exec, store
\* the match's start and end in the next two slots, advance, test, repeat.
\* It ends with the array and the slot index reached.
RECURSIVE SearchLoop(_, _, _, _, _, _, _)
AfterMatch(query, docText_, stored, index, matchCountLimit, searchEndIndex, lastIndex) ==
    IF SearchMustStop(index, matchCountLimit, lastIndex, searchEndIndex)
    THEN [array |-> stored, index |-> index]
    ELSE SearchLoop(query, docText_, lastIndex, stored, index, matchCountLimit,
                    searchEndIndex)

OnExec(query, docText_, groupArray, index, matchCountLimit, searchEndIndex, matchArray) ==
    IF ~matchArray.matched THEN [array |-> groupArray, index |-> index]
    ELSE AfterMatch(query, docText_,
                    SetAt(SetAt(groupArray, index, matchArray.index), index + 1,
                          matchArray.lastIndex),
                    index + 2, matchCountLimit, searchEndIndex,
                    AdvanceLastIndex(matchArray.index, matchArray.lastIndex))

SearchLoop(query, docText_, lastIndex, groupArray, index, matchCountLimit, searchEndIndex) ==
    OnExec(query, docText_, groupArray, index, matchCountLimit, searchEndIndex,
           Exec(query, docText_, lastIndex))

SearchReturn(r) == [array |-> r.array, count |-> r.index \div GroupSize]

\* Returns the filled array and the count of results; lastIndex is the
\* query's lastIndex when the function is entered.
_searchAndAddResultsToArray(query, docText_, lastIndex, groupArray, matchCountLimit, searchEndIndex) ==
    SearchReturn(SearchLoop(query, docText_, lastIndex, groupArray, 0,
                            OrElse(matchCountLimit, DefaultMaxResults) * GroupSize,
                            OrElse(searchEndIndex, Len(docText_))))

_isGroupValuesEqual(groupArray1, groupNum1, groupArray2, groupNum2) ==
    /\ getGroupValue(groupArray1, groupNum1, 0) = getGroupValue(groupArray2, groupNum2, 0)
    /\ getGroupValue(groupArray1, groupNum1, 1) = getGroupValue(groupArray2, groupNum2, 1)

\* A join that leaves the second array as it is
KeepResultOnEdge(firstSearchResults, secondSearchResults) == secondSearchResults

\* The second array, without its last group when that equals the first's first
_removeIfDuplicateResultOnEdge(firstSearchResults, secondSearchResults) ==
    IF itemCount(firstSearchResults) = 0 \/ itemCount(secondSearchResults) = 0
    THEN secondSearchResults
    ELSE IF _isGroupValuesEqual(firstSearchResults, 0, secondSearchResults,
                                itemCount(secondSearchResults) - 1)
    THEN SubSeq(secondSearchResults, 1, Len(secondSearchResults) - 2)
    ELSE secondSearchResults

\* Whether the second search, from the beginning of the document, is made
NeedSecondSearch(startIndex, resultCount, maxResults) ==
    JsGreater(startIndex, 0) /\ (resultCount < maxResults)

\* The limit the second search is given
SecondSearchLimit(maxResults, resultCount) == maxResults

\* The second search's results, less a duplicate on the edge, then the first's
JoinSearches(first, second) ==
    _removeIfDuplicateResultOnEdge(first.array, second.array) \o first.array

AfterFirstSearch(docText_, query, startIndex, maxResults, first) ==
    IF NeedSecondSearch(startIndex, first.count, maxResults)
    THEN JoinSearches(first,
             _searchAndAddResultsToArray(query, docText_, 0, <<>>,
                 SecondSearchLimit(maxResults, first.count), startIndex))
    ELSE first.array

_createSearchResults(docText_, query, startIndex, maxResults) ==
    AfterFirstSearch(docText_, query, startIndex, maxResults,
        _searchAndAddResultsToArray(query, docText_, startIndex, <<>>, maxResults,
                                    JsUndefined))

DefaultStartPosition == Range(Pos(0, 0), Pos(0, 0))

\* The indexer: the group array, its current group index and the line
\* index it was created with.  startPosition is <<>> or <<range>>.
_createRegexIndexer(docText_, docLineIndex, query, maxResults, startPosition) ==
    [array |-> _createSearchResults(docText_, query,
                   _indexFromPos(docLineIndex,
                       (IF startPosition = None THEN DefaultStartPosition
                        ELSE startPosition[1]).from),
                   OrElse(maxResults, DefaultMaxResults)),
     currentGroupIndex |-> 0 - GroupSize,
     docLineIndex |-> docLineIndex]

---------------------------------------------------------------------------
(* Navigation inside the indexer *)

_compareMatchResultToPos(matchIndex, posIndex) ==
    IF posIndex >= 0 /\ matchIndex = posIndex THEN 0
    ELSE IF posIndex >= 0 /\ matchIndex < posIndex THEN 0 - 1
    ELSE 1

\* The bisection loop: the last searchIndex and compare, or the exact hit
RECURSIVE BisectLoop(_, _, _, _, _, _)
BisectLoop(array, pos, lowerBound, upperBound, searchIndex, compare) ==
    IF lowerBound <= upperBound
    THEN LET mid == (upperBound + lowerBound) \div 2
             cmp == _compareMatchResultToPos(getGroupValue(array, mid, 0), pos)
         IN IF cmp = 0 THEN [hit |-> TRUE, searchIndex |-> mid, compare |-> cmp]
            ELSE IF cmp = 0 - 1
            THEN BisectLoop(array, pos, mid + 1, upperBound, mid, cmp)
            ELSE BisectLoop(array, pos, lowerBound, mid - 1, mid, cmp)
    ELSE [hit |-> FALSE, searchIndex |-> searchIndex, compare |-> compare]

\* A search that leaves out the step to the next index when going forward
NearestWithoutStep(length, reverse, b) ==
    IF b.hit THEN b.searchIndex
    ELSE IF b.searchIndex = JsUndefined THEN JsUndefined
    ELSE IF (b.compare = 1) /\ reverse
    THEN (IF b.searchIndex - 1 < 0 THEN JsFalse ELSE b.searchIndex - 1)
    ELSE b.searchIndex

\* The index of the match at pos or nearest to it in the search direction,
\* JsFalse when the search ran off either end, JsUndefined on an empty array
NearestFrom(length, reverse, b) ==
    IF b.hit THEN b.searchIndex
    ELSE IF b.searchIndex = JsUndefined THEN JsUndefined
    ELSE IF (b.compare = 0 - 1) /\ ~reverse
    THEN (IF b.searchIndex + 1 >= length THEN JsFalse ELSE b.searchIndex + 1)
    ELSE IF (b.compare = 1) /\ reverse
    THEN (IF b.searchIndex - 1 < 0 THEN JsFalse ELSE b.searchIndex - 1)
    ELSE b.searchIndex

_findResultIndexNearPos(array, pos, reverse) ==
    NearestFrom(itemCount(array), reverse,
                BisectLoop(array, pos, 0, itemCount(array) - 1, JsUndefined, JsUndefined))

\* A nextGroupIndex that stays on the last group when it runs off the end
NextGroupIndexStaysAtEnd(array, currentGroupIndex) ==
    IF currentGroupIndex < Len(array) - GroupSize
    THEN [current |-> currentGroupIndex + GroupSize, ret |-> currentGroupIndex + GroupSize]
    ELSE [current |-> currentGroupIndex, ret |-> JsFalse]

\* nextGroupIndex: the new current group index and the value returned
nextGroupIndex(array, currentGroupIndex) ==
    IF currentGroupIndex < Len(array) - GroupSize
    THEN [current |-> currentGroupIndex + GroupSize, ret |-> currentGroupIndex + GroupSize]
    ELSE [current |-> 0 - GroupSize, ret |-> JsFalse]

prevGroupIndex(array, currentGroupIndex) ==
    IF currentGroupIndex - GroupSize > 0 - 1
    THEN [current |-> currentGroupIndex - GroupSize, ret |-> currentGroupIndex - GroupSize]
    ELSE [current |-> 0 - GroupSize, ret |-> JsFalse]

\* A value a navigation function returns: a range, false or undefined
NoRange == Range(Pos(0, 0), Pos(0, 0))
Found(range) == [kind |-> "range", range |-> range]
RetFalse == [kind |-> "false", range |-> NoRange]
RetUndefined == [kind |-> "undefined", range |-> NoRange]

MatchAt(indexer, groupIndex) ==
    _createSearchResult(indexer.docLineIndex, indexer.array[groupIndex + 1],
                        indexer.array[groupIndex + 2], JsUndefined)

getCurrentMatch(indexer) ==
    IF indexer.currentGroupIndex > 0 - 1
    THEN Found(MatchAt(indexer, indexer.currentGroupIndex))
    ELSE RetUndefined

\* A current match number that is the group index itself
GroupIndexAsNumber(indexer) == indexer.currentGroupIndex

getCurrentMatchNumber(indexer) == indexer.currentGroupIndex \div GroupSize

\* nextMatch / prevMatch: the indexer afterwards and the value returned
Stepped(indexer, g) ==
    [indexer |-> [indexer EXCEPT !.currentGroupIndex = g.current],
     ret |-> IF g.ret = JsFalse THEN RetFalse ELSE Found(MatchAt(indexer, g.ret))]

nextMatch(indexer) ==
    Stepped(indexer, nextGroupIndex(indexer.array, indexer.currentGroupIndex))

prevMatch(indexer) ==
    Stepped(indexer, prevGroupIndex(indexer.array, indexer.currentGroupIndex))

\* forEachMatch of the indexer: the (from, to) pairs the callback is given
RECURSIVE ForEachLoop(_, _, _, _)
ForEachTo(indexer, index, fromPos, toPos, calls) ==
    ForEachLoop(indexer, index + 1, toPos.line, Append(calls, Range(fromPos, toPos)))

ForEachFrom(indexer, index, fromPos, calls) ==
    ForEachTo(indexer, index, fromPos,
              _createPosFromIndex(indexer.docLineIndex, fromPos.line,
                                  indexer.array[(GroupSize * index) + 2]), calls)

ForEachLoop(indexer, index, lastLine, calls) ==
    IF index < itemCount(indexer.array)
    THEN ForEachFrom(indexer, index,
                     _createPosFromIndex(indexer.docLineIndex, lastLine,
                                         indexer.array[(GroupSize * index) + 1]), calls)
    ELSE calls

forEachMatch(indexer) == ForEachLoop(indexer, 0, 0, <<>>)

\* Numbers are IEEE 754 doubles: a significand of 53 bits, 52 of them stored
MantissaBits == 52

RECURSIVE Pow2(_)
Pow2(e) == IF e = 0 THEN 1 ELSE 2 * Pow2(e - 1)

\* 2^s modulo m
RECURSIVE Pow2Mod(_, _)
Pow2Mod(s, m) == IF s = 0 THEN 1 % m ELSE (2 * Pow2Mod(s - 1, m)) % m

RECURSIVE Gcd(_, _)
Gcd(a, b) == IF b = 0 THEN a ELSE Gcd(b, a % b)

RECURSIVE OddPart(_)
OddPart(b) == IF b % 2 = 0 THEN OddPart(b \div 2) ELSE b

\* floor(log2(num / den)), for num, den >= 1
RECURSIVE FloorLog2(_, _)
FloorLog2(num, den) ==
    IF num >= 2 * den THEN FloorLog2(num, 2 * den) + 1
    ELSE IF num < den THEN FloorLog2(2 * num, den) - 1
    ELSE 0

\* The e >= -1 with 2^e < k <= 2^(e+1), for k >= 1: the doubles just below
\* k are 2^(e - 52) apart
RECURSIVE ExponentBelow(_, _)
ExponentBelow(k, e) == IF Pow2(e) < k THEN ExponentBelow(k, e + 1) ELSE e - 1

\* a * 2^e > b, for integers a, b >= 0 and any integer e
ScaledGreater(a, e, b) == IF e >= 0 THEN a * Pow2(e) > b ELSE a > b * Pow2(0 - e)

\* The double n / b was rounded up by d / b of its last place (d < b / 2),
\* and k = l / (n / b) is a whole number: l divided by the double is k less
\* k * d / (b * M), with M the 53-bit significand.  The result rounds to the
\* double below k when that is more than half the distance 2^(e - 52) to
\* that double, e = ExponentBelow(k), which is 2 * k * d / 2^e > n / 2^E,
\* E = FloorLog2(n, b), up to d / 2^52.
RoundsBelow(k, n, b, d) ==
    ScaledGreater(2 * k * d, FloorLog2(n, b) - ExponentBelow(k, 0), n)

\* What is left of n * 2^s over b, s the shift that gives the quotient 53 bits
SignificandRemainder(n, b) == (Pow2Mod(MantissaBits - FloorLog2(n, b), b) * n) % b

\* Math.floor(l / (n / b)) for n / b in lowest terms and l a multiple of n,
\* l, n, b >= 1: n / b is exact when b is a power of two, and is rounded to
\* the nearest double otherwise, down when the remainder is below b / 2
FloorOfWhole(k, n, b) ==
    IF OddPart(b) = 1 THEN k
    ELSE IF 2 * SignificandRemainder(n, b) < b THEN k
    ELSE IF RoundsBelow(k, n, b, b - SignificandRemainder(n, b)) THEN k - 1
    ELSE k

\* Math.floor(fromLine / linesPerArraySlot), linesPerArraySlot the double
\* lineCount / length.  Where fromLine * length is no multiple of lineCount
\* the quotient is at least 1 / lineCount away from a whole number, which
\* the rounding of the two divisions never bridges.
SlotOfLine(fromLine, lineCount, length) ==
    IF fromLine = 0 THEN 0
    ELSE IF (fromLine * length) % lineCount # 0 THEN (fromLine * length) \div lineCount
    ELSE FloorOfWhole((fromLine * length) \div lineCount,
                      lineCount \div Gcd(lineCount, length),
                      length \div Gcd(lineCount, length))

\* fillWithMatchedLinePattern: the pattern array with a 1 in the slot of the
\* line each match starts on; a write outside a typed array is ignored.
RECURSIVE FillLoop(_, _, _, _)
FillSlot(patternArray, slot) ==
    IF slot >= 0 /\ slot < Len(patternArray) THEN [patternArray EXCEPT ![slot + 1] = 1]
    ELSE patternArray

FillFrom(indexer, index, fromLine, patternArray) ==
    FillLoop(indexer, index + 1, fromLine,
             FillSlot(patternArray,
                      IF fromLine < 0 THEN JsNaN
                      ELSE SlotOfLine(fromLine, Len(indexer.docLineIndex),
                                      Len(patternArray))))

FillLoop(indexer, index, lastLine, patternArray) ==
    IF index < itemCount(indexer.array)
    THEN FillFrom(indexer, index,
                  IF lastLine < 0 THEN JsUndefined
                  ELSE _lineFromIndex(indexer.docLineIndex, lastLine,
                                      indexer.array[(GroupSize * index) + 1]),
                  patternArray)
    ELSE patternArray

fillWithMatchedLinePattern(indexer, patternArray) == FillLoop(indexer, 0, 0, patternArray)

\* getFullResultInfo: the current match with the match array of the query
\* executed again at the stored start of match matchNumber; it throws when
\* no match is the current one (a property of undefined is set).  Of the
\* match array its index and the lastIndex left are kept; null is unmatched.
FullResultInfo(indexer, currentMatch, matchInfo) ==
    IF currentMatch.kind # "range"
    THEN [threw |-> TRUE, range |-> NoRange, match |-> matchInfo]
    ELSE [threw |-> FALSE, range |-> currentMatch.range, match |-> matchInfo]

getFullResultInfo(indexer, matchNumber, query, docText_) ==
    FullResultInfo(indexer, getCurrentMatch(indexer),
                   Exec(query, docText_,
                        IF (GroupSize * matchNumber) >= 0
                               /\ (GroupSize * matchNumber) < Len(indexer.array)
                        THEN indexer.array[(GroupSize * matchNumber) + 1]
                        ELSE JsUndefined))

\* forEachMatchWithinRange: the sequence of (from, to) the callback is called with
RECURSIVE WithinRangeLoop(_, _, _, _, _)
WithinRangeTo(indexer, endPosition, index, fromPos, toPos, calls) ==
    IF JsGreater(fromPos.line, endPosition.line) THEN calls
    ELSE WithinRangeLoop(indexer, endPosition, index + 1, toPos.line,
                         Append(calls, Range(fromPos, toPos)))

WithinRangeFrom(indexer, endPosition, index, fromPos, calls) ==
    WithinRangeTo(indexer, endPosition, index, fromPos,
                  _createPosFromIndex(indexer.docLineIndex, fromPos.line,
                                      indexer.array[(GroupSize * index) + 2]), calls)

WithinRangeLoop(indexer, endPosition, index, lastLine, calls) ==
    IF index < itemCount(indexer.array)
    THEN WithinRangeFrom(indexer, endPosition, index,
                         _createPosFromIndex(indexer.docLineIndex, lastLine,
                                             indexer.array[(GroupSize * index) + 1]), calls)
    ELSE calls

\* The part after the binary search.  On an empty array nearestMatchIndex
\* is undefined, which is not false: the array element read with it is
\* undefined, no comparison with it is true, and the loop is not entered.
\* The element read for nearestMatchPosition is the one at nearestMatchIndex
\* itself, not at the group index of that match.
WithinRangeNear(indexer, startPosition, endPosition, nearestMatchIndex) ==
    IF nearestMatchIndex = JsFalse THEN <<>>
    ELSE IF nearestMatchIndex = JsUndefined THEN <<>>
    ELSE IF JsGreater(_createPosFromIndex(indexer.docLineIndex, startPosition.line,
                                          indexer.array[nearestMatchIndex + 1]).line,
                      endPosition.line)
    THEN <<>>
    ELSE WithinRangeLoop(indexer, endPosition, nearestMatchIndex, startPosition.line, <<>>)

forEachMatchWithinRange(indexer, startPosition, endPosition) ==
    WithinRangeNear(indexer, startPosition, endPosition,
                    _findResultIndexNearPos(indexer.array,
                        _indexFromPos(indexer.docLineIndex, startPosition), FALSE))

---------------------------------------------------------------------------
(* The document cache *)

\* A test that looks for the cache entry and not at its generation
NotIndexedYet(map, doc) == map[doc] = None

_needToIndexDocument(map, doc) ==
    ~(map[doc] # None /\ map[doc][1].generation = docGeneration[doc])

_indexDocument(map, doc) ==
    [map EXCEPT ![doc] =
        Some([text |-> docText[doc],
              index |-> _createLineCharacterCountIndex(docText[doc], LineSeparator),
              generation |-> docGeneration[doc]])]

_getDocumentIndex(map, doc) == map[doc][1].index
_getDocumentText(map, doc) == map[doc][1].text

---------------------------------------------------------------------------
(* The scan without a cursor *)

\* The range test of the scan made with a test that leaves out a match
\* ending at the end of the range
EndsBeforeRangeEnd(lastIndex, endRangeIndex) ==
    endRangeIndex >= 0 /\ lastIndex < endRangeIndex

\* regex.lastIndex <= endRangeIndex, false when endRangeIndex is NaN
EndsInRange(lastIndex, endRangeIndex) ==
    endRangeIndex >= 0 /\ lastIndex <= endRangeIndex

\* _scanDocumentUsingRegularExpression: the sequence of (from, to, match)
\* the callback is called with; of the match array its index is kept
RECURSIVE ScanLoop(_, _, _, _, _, _, _)
ScanEnd(documentIndex, documentText, regex, endRangeIndex, m, startPosition, endPosition, calls) ==
    IF EndsInRange(m.lastIndex, endRangeIndex)
    THEN ScanLoop(documentIndex, documentText, regex, endRangeIndex,
                  IF m.index = m.lastIndex THEN m.lastIndex + 1 ELSE m.lastIndex,
                  endPosition.line,
                  Append(calls, [from |-> startPosition, to |-> endPosition,
                                 index |-> m.index]))
    ELSE calls

ScanStart(documentIndex, documentText, regex, endRangeIndex, m, startPosition, calls) ==
    ScanEnd(documentIndex, documentText, regex, endRangeIndex, m, startPosition,
            _createPosFromIndex(documentIndex, startPosition.line, m.lastIndex), calls)

ScanExec(documentIndex, documentText, regex, endRangeIndex, m, lastMatchedLine, calls) ==
    IF m.matched
    THEN ScanStart(documentIndex, documentText, regex, endRangeIndex, m,
                   _createPosFromIndex(documentIndex, lastMatchedLine, m.index), calls)
    ELSE calls

ScanLoop(documentIndex, documentText, regex, endRangeIndex, lastIndex, lastMatchedLine, calls) ==
    ScanExec(documentIndex, documentText, regex, endRangeIndex,
             Exec(regex, documentText, lastIndex), lastMatchedLine, calls)

\* range is <<>> (undefined) or <<[from, to]>>
_scanDocumentUsingRegularExpression(documentIndex, documentText, regex, range) ==
    ScanLoop(documentIndex, documentText, regex,
             IF range # None THEN _indexFromPos(documentIndex, range[1].to)
             ELSE documentIndex[Len(documentIndex)],
             IF range # None THEN _indexFromPos(documentIndex, range[1].from) ELSE 0,
             0, <<>>)

\* scanDocumentForMatches: the cache it leaves and the calls of fnEachMatch
ScanForMatchesIndexed(map, properties) ==
    [map |-> map,
     calls |-> _scanDocumentUsingRegularExpression(
                   _getDocumentIndex(map, properties.document),
                   _getDocumentText(map, properties.document),
                   _convertToRegularExpression(properties.searchQuery,
                                               properties.ignoreCase),
                   properties.range)]

scanDocumentForMatches(map, properties) ==
    ScanForMatchesIndexed(IF _needToIndexDocument(map, properties.document)
                          THEN _indexDocument(map, properties.document) ELSE map,
                          properties)

---------------------------------------------------------------------------
(* The search cursor.  A function of the cursor returns the cursor and the *)
(* document cache as it leaves them, whether it threw (a TypeError on a    *)
(* cursor with no document or no query) and the value it returned.         *)

\* _createCursor(): no field is set.  ignoreCase and resultsCurrent are
\* only ever undefined or true; FALSE stands for undefined.
NewCursor ==
    [doc |-> None, query |-> None, ignoreCase |-> FALSE, maxResults |-> JsUndefined,
     currentPosition |-> None, atOccurrence |-> FALSE, resultsCurrent |-> FALSE,
     regexIndexer |-> None]

Outcome(cur, map, threw, ret) == [cursor |-> cur, map |-> map, threw |-> threw, ret |-> ret]

IndexIfNeeded(map, doc) ==
    IF _needToIndexDocument(map, doc) THEN _indexDocument(map, doc) ELSE map

\* A scan that also moves the cursor's position to the end of its last match
StoreIndexerAtLastMatch(cur, map, indexer) ==
    Outcome([cur EXCEPT !.regexIndexer = Some(indexer), !.resultsCurrent = TRUE,
                        !.currentPosition =
                            IF itemCount(indexer.array) = 0 THEN @
                            ELSE Some(Range(MatchAt(indexer, Len(indexer.array) - GroupSize).to,
                                            MatchAt(indexer, Len(indexer.array) - GroupSize).to))],
            map, FALSE, itemCount(indexer.array))

StoreIndexer(cur, map, indexer) ==
    Outcome([cur EXCEPT !.regexIndexer = Some(indexer), !.resultsCurrent = TRUE],
            map, FALSE, itemCount(indexer.array))

\* scanDocumentAndStoreResultsInCursor once the document is indexed
ScanIndexed(cur, map) ==
    IF cur.query = None THEN Outcome(cur, map, TRUE, 0)
    ELSE StoreIndexer(cur, map,
             _createRegexIndexer(_getDocumentText(map, cur.doc[1]),
                                 _getDocumentIndex(map, cur.doc[1]),
                                 cur.query[1], cur.maxResults, cur.currentPosition))

scanDocumentAndStoreResultsInCursor(cur, map) ==
    IF cur.doc = None THEN Outcome(cur, map, TRUE, 0)
    ELSE ScanIndexed(cur, IndexIfNeeded(map, cur.doc[1]))

\* A refresh that scans whether or not the results are current
RescanAlways(cur, map) ==
    IF cur.doc = None THEN Outcome(cur, map, TRUE, 0)
    ELSE IF _needToIndexDocument(map, cur.doc[1])
    THEN scanDocumentAndStoreResultsInCursor([cur EXCEPT !.resultsCurrent = FALSE],
                                             _indexDocument(map, cur.doc[1]))
    ELSE scanDocumentAndStoreResultsInCursor(cur, map)

\* A refresh that marks the results current before it looks at the document
MarkCurrentThenUpdate(cur, map) ==
    IF cur.doc = None THEN Outcome([cur EXCEPT !.resultsCurrent = TRUE], map, TRUE, 0)
    ELSE IF _needToIndexDocument(map, cur.doc[1])
    THEN scanDocumentAndStoreResultsInCursor([cur EXCEPT !.resultsCurrent = FALSE],
                                             _indexDocument(map, cur.doc[1]))
    ELSE IF ~cur.resultsCurrent THEN scanDocumentAndStoreResultsInCursor(cur, map)
    ELSE Outcome(cur, map, FALSE, 0)

_updateResultsIfNeeded(cur, map) ==
    IF cur.doc = None THEN Outcome(cur, map, TRUE, 0)
    ELSE IF _needToIndexDocument(map, cur.doc[1])
    THEN scanDocumentAndStoreResultsInCursor([cur EXCEPT !.resultsCurrent = FALSE],
                                             _indexDocument(map, cur.doc[1]))
    ELSE IF ~cur.resultsCurrent THEN scanDocumentAndStoreResultsInCursor(cur, map)
    ELSE Outcome(cur, map, FALSE, 0)

\* Whether the query is taken as changed by _setQuery
QueryChanged(oldQuery, newRegexQuery) ==
    oldQuery # None /\ oldQuery[1].source # newRegexQuery.source

SetCompiledQuery(cur, newRegexQuery) ==
    [cur EXCEPT !.resultsCurrent = IF QueryChanged(cur.query, newRegexQuery)
                                   THEN FALSE ELSE @,
                !.query = Some(newRegexQuery)]

\* new RegExp(source, flags) throws a SyntaxError: the source is no pattern
RegExpThrows(source) == source = "("

\* A _setQuery that marks the results stale before it compiles the query
InvalidateThenCompile(cur, query) ==
    IF RegExpThrows(query.source) THEN [cur EXCEPT !.resultsCurrent = FALSE]
    ELSE SetCompiledQuery(cur, _convertToRegularExpression(query, cur.ignoreCase))

\* The compilation is the first statement: when it throws nothing is assigned
_setQuery(cur, query) ==
    IF RegExpThrows(query.source) THEN cur
    ELSE SetCompiledQuery(cur, _convertToRegularExpression(query, cur.ignoreCase))

_setPos(cur, pos) == [cur EXCEPT !.currentPosition = Some(Range(pos, pos))]

_startingPositionForFind(cur, reverse) ==
    IF cur.currentPosition # None THEN cur.currentPosition[1]
    ELSE IF reverse
    THEN Range(Pos(LineCount(docText[cur.doc[1]]), 0), Pos(LineCount(docText[cur.doc[1]]), 0))
    ELSE Range(Pos(0, 0), Pos(0, 0))

\* properties: each field is <<>> (absent) or <<value>>
SetIgnoreCase(cur, properties) ==
    IF properties.ignoreCase # None /\ properties.ignoreCase[1]
    THEN [cur EXCEPT !.ignoreCase = properties.ignoreCase[1]] ELSE cur

SetDocument(cur, properties) ==
    IF properties.document # None THEN [cur EXCEPT !.doc = properties.document] ELSE cur

SetQuery(cur, properties) ==
    IF properties.searchQuery # None THEN _setQuery(cur, properties.searchQuery[1]) ELSE cur

SetPosition(cur, properties) ==
    IF properties.position # None THEN _setPos(cur, properties.position[1]) ELSE cur

SetMaxResults(cur, properties) ==
    IF properties.maxResults # None /\ Truthy(properties.maxResults[1])
    THEN [cur EXCEPT !.maxResults = properties.maxResults[1]] ELSE cur

\* _setQuery throws on these properties
QueryThrows(properties) ==
    properties.searchQuery # None /\ RegExpThrows(properties.searchQuery[1].source)

\* The statements up to and including the call of _setQuery
SetUpToQuery(cur, properties) ==
    SetQuery(
        SetDocument(
            SetIgnoreCase([cur EXCEPT !.atOccurrence = FALSE], properties),
            properties),
        properties)

\* When _setQuery throws, the statements after it are not reached
setSearchDocumentAndQuery(cur, properties) ==
    IF QueryThrows(properties) THEN SetUpToQuery(cur, properties)
    ELSE SetMaxResults(SetPosition(SetUpToQuery(cur, properties), properties),
                       properties)

\* Whether find takes the index the binary search returned
IndexFound(matchIndex) == Truthy(matchIndex)

\* The end of find: foundPosition is found, the indexer is left as indexer
FinishFind(cur, indexer, found) ==
    [cursor |-> IF found.kind = "range"
                THEN [cur EXCEPT !.currentPosition = Some(found.range),
                                 !.atOccurrence = TRUE,
                                 !.regexIndexer = Some(indexer)]
                ELSE [cur EXCEPT !.currentPosition = None,
                                 !.atOccurrence = FALSE,
                                 !.regexIndexer = Some(indexer)],
     ret |-> found]

\* _findNext / _findPrevious, from what nextMatch / prevMatch gave
FindStep(cur, step) == FinishFind(cur, step.indexer, step.ret)

_findNext(cur, indexer) == FindStep(cur, nextMatch(indexer))
_findPrevious(cur, indexer) == FindStep(cur, prevMatch(indexer))

setCurrentMatchNumber(indexer, number) ==
    [indexer EXCEPT !.currentGroupIndex = number * GroupSize]

FindSelected(cur, indexer) == FinishFind(cur, indexer, getCurrentMatch(indexer))

\* The branch of find taken when no match is the current one
FindSeeded(cur, indexer, reverse, matchIndex) ==
    IF IndexFound(matchIndex)
    THEN FindSelected(cur, setCurrentMatchNumber(indexer, matchIndex))
    ELSE IF reverse THEN _findPrevious(cur, indexer) ELSE _findNext(cur, indexer)

\* The offset find seeds its binary search with
SeedOffset(cur, map, reverse) ==
    _indexFromPos(_getDocumentIndex(map, cur.doc[1]),
                  _startingPositionForFind(cur, reverse).from)

NoCurrentMatch(cur) == getCurrentMatch(cur.regexIndexer[1]).kind # "range"

\* find(reverse), after _updateResultsIfNeeded left cursor cur and cache map
FindInResults(cur, map, reverse) ==
    IF NoCurrentMatch(cur)
    THEN FindSeeded([cur EXCEPT !.currentPosition =
                                    Some(_startingPositionForFind(cur, reverse))],
                    cur.regexIndexer[1], reverse,
                    _findResultIndexNearPos(cur.regexIndexer[1].array,
                                            SeedOffset(cur, map, reverse), reverse))
    ELSE IF reverse THEN _findPrevious(cur, cur.regexIndexer[1])
    ELSE _findNext(cur, cur.regexIndexer[1])

---------------------------------------------------------------------------
(* The inputs of the model *)

\* The texts documents hold in the cursor specifications
TextPool == {<<"a">>, <<"a", "a", "a">>, <<"A", "\n", "a">>}

\* The queries callers search for: strings of letters, and RegExps
QueryPool == {[source |-> "a"], [source |-> "aa"]}
ScanQueryPool == {[source |-> "a"], [source |-> "aa"], [source |-> "a*"]}

\* A query object whose source does not compile
InvalidQueryPool == {[source |-> "("]}

\* The queries of the traversal specification: one more, a string of two
\* line separators, whose matches span lines
EachQueryPool == ScanQueryPool \cup {[source |-> "\n\n"]}

\* The queries that match the empty string
ZeroWidthQueryPool == {[source |-> "a*"], [source |-> ".*"]}

\* The queries given to scanDocumentForMatches
ForMatchesQueryPool == {[source |-> "a"], [source |-> "a*"], [source |-> "\n\n"]}

\* The positions of a text: a line of it and a column up to the line's length
PositionsOf(text) ==
    LET lines == Split(text, LineSeparator)
    IN {p \in [line : 0..(Len(lines) - 1), ch : 0..Len(text)] :
            p.ch <= Len(lines[p.line + 1])}

\* The fields callers pass together to setSearchDocumentAndQuery
PropertyShapes ==
    {{"document"}, {"searchQuery"}, {"position"}, {"ignoreCase"}, {"maxResults"},
     {"document", "searchQuery"}, {"searchQuery", "ignoreCase"},
     {"searchQuery", "position"}}

\* A field of the properties: <<>> when absent, <<value>> for a value of S
Field(shape, name, S) == IF name \in shape THEN {Some(x) : x \in S} ELSE {None}

Properties(document, searchQuery, position, ignoreCase, maxResults) ==
    [document |-> document, searchQuery |-> searchQuery, position |-> position,
     ignoreCase |-> ignoreCase, maxResults |-> maxResults]

\* The number of edits made so far
RECURSIVE SumOver(_, _)
SumOver(f, S) ==
    IF S = {} THEN 0 ELSE LET x == CHOOSE y \in S : TRUE IN f[x] + SumOver(f, S \ {x})

Edits == SumOver(docGeneration, DOMAIN docGeneration)

---------------------------------------------------------------------------
(* The operations, one action each *)

\* The properties a caller passes to cursor c.  A position it passes is a
\* position of the text of the document the cursor then searches.
PositionsFor(c, document) ==
    IF document # None THEN PositionsOf(docText[document[1]])
    ELSE IF cursor[c].doc # None THEN PositionsOf(docText[cursor[c].doc[1]])
    ELSE {}

PropertiesOfShape(c, shape, queries) ==
    {properties \in
        [document : Field(shape, "document", DOMAIN docText),
         searchQuery : Field(shape, "searchQuery", queries),
         position : Field(shape, "position",
                          UNION {PositionsOf(docText[d]) : d \in DOMAIN docText}),
         ignoreCase : Field(shape, "ignoreCase", BOOLEAN),
         maxResults : Field(shape, "maxResults", 1..MaxResultsBound)] :
        properties.position # None =>
            properties.position[1] \in PositionsFor(c, properties.document)}

PropertiesFor(c) ==
    UNION {PropertiesOfShape(c, shape, QueryPool) : shape \in PropertyShapes}

\* The same, with the query that does not compile among the queries
PropertiesForAny(c) ==
    UNION {PropertiesOfShape(c, shape, QueryPool \cup InvalidQueryPool) :
              shape \in PropertyShapes}

\* A caller sets or updates the cursor's properties; call is what is
\* recorded of the call
SetSearchDocumentAndQueryCalled(c, properties, call) ==
    /\ cursor' = [cursor EXCEPT ![c] = setSearchDocumentAndQuery(@, properties)]
    /\ last' = call
    /\ UNCHANGED <<docText, docGeneration, documentMap>>

SetSearchDocumentAndQuery(c) ==
    \E properties \in PropertiesFor(c) :
        SetSearchDocumentAndQueryCalled(c, properties,
            [op |-> "setSearchDocumentAndQuery", c |-> c])

\* The same call, recorded with the properties passed and whether it threw
SetSearchDocumentAndQueryObserved(c) ==
    \E properties \in PropertiesForAny(c) :
        SetSearchDocumentAndQueryCalled(c, properties,
            [op |-> "setSearchDocumentAndQuery", c |-> c, properties |-> properties,
             threw |-> QueryThrows(properties)])

\* The editor changes a document: a new text, and the history generation advances
EditDocumentTo(d, texts) ==
    \E text \in texts \ {docText[d]} :
        /\ Edits < MaxEdits
        /\ docText' = [docText EXCEPT ![d] = text]
        /\ docGeneration' = [docGeneration EXCEPT ![d] = @ + 1]
        /\ last' = [op |-> "edit", doc |-> d]
        /\ UNCHANGED <<documentMap, cursor>>

EditDocument(d) == EditDocumentTo(d, TextPool)

Returned(c, u) ==
    /\ documentMap' = u.map
    /\ cursor' = [cursor EXCEPT ![c] = u.cursor]
    /\ UNCHANGED <<docText, docGeneration>>

FindFound(c, reverse, u, f) ==
    /\ documentMap' = u.map
    /\ cursor' = [cursor EXCEPT ![c] = f.cursor]
    /\ last' = [op |-> "find", c |-> c, threw |-> FALSE, reverse |-> reverse,
                noCurrent |-> NoCurrentMatch(u.cursor),
                seed |-> SeedOffset(u.cursor, u.map, reverse), ret |-> f.ret]
    /\ UNCHANGED <<docText, docGeneration>>

FindUpdated(c, reverse, u) ==
    IF u.threw
    THEN Returned(c, u) /\ last' = [op |-> "find", c |-> c, threw |-> TRUE]
    ELSE FindFound(c, reverse, u, FindInResults(u.cursor, u.map, reverse))

Find(c, reverse) == FindUpdated(c, reverse, _updateResultsIfNeeded(cursor[c], documentMap))

GetMatchCountUpdated(c, u) ==
    /\ Returned(c, u)
    /\ last' = [op |-> "getMatchCount", c |-> c, threw |-> u.threw,
                ret |-> IF u.threw THEN 0 ELSE itemCount(u.cursor.regexIndexer[1].array)]

GetMatchCount(c) == GetMatchCountUpdated(c, _updateResultsIfNeeded(cursor[c], documentMap))

ForEachMatchUpdated(c, u) ==
    /\ Returned(c, u)
    /\ last' = [op |-> "forEachMatch", c |-> c, threw |-> u.threw,
                calls |-> IF u.threw THEN <<>> ELSE forEachMatch(u.cursor.regexIndexer[1])]

ForEachMatch(c) == ForEachMatchUpdated(c, _updateResultsIfNeeded(cursor[c], documentMap))

\* The range a caller passes: two positions of the text the cursor searches
ForEachMatchWithinRangeUpdated(c, startPosition, endPosition, u) ==
    /\ Returned(c, u)
    /\ last' = [op |-> "forEachMatchWithinRange", c |-> c, threw |-> u.threw,
                from |-> startPosition, to |-> endPosition,
                calls |-> IF u.threw THEN <<>>
                          ELSE forEachMatchWithinRange(u.cursor.regexIndexer[1],
                                                       startPosition, endPosition)]

ForEachMatchWithinRange(c) ==
    \E startPosition, endPosition \in PositionsFor(c, None) \cup {Pos(0, 0)} :
        ForEachMatchWithinRangeUpdated(c, startPosition, endPosition,
                                       _updateResultsIfNeeded(cursor[c], documentMap))

\* getFullInfoForCurrentMatch: no refresh of the results comes first.  It
\* throws when the document has no cache entry or the cursor no indexer.
NoFullInfo == [threw |-> TRUE, range |-> NoRange,
               match |-> [matched |-> FALSE, index |-> 0, lastIndex |-> 0]]

getFullInfoForCurrentMatch(cur, map) ==
    IF cur.doc = None THEN NoFullInfo
    ELSE IF map[cur.doc[1]] = None THEN NoFullInfo
    ELSE IF cur.regexIndexer = None THEN NoFullInfo
    ELSE getFullResultInfo(cur.regexIndexer[1],
                           getCurrentMatchNumber(cur.regexIndexer[1]),
                           cur.query[1], _getDocumentText(map, cur.doc[1]))

GetFullInfoForCurrentMatchReturned(c, r) ==
    /\ last' = [op |-> "getFullInfoForCurrentMatch", c |-> c, threw |-> r.threw,
                range |-> r.range, match |-> r.match]
    /\ UNCHANGED <<docText, docGeneration, documentMap, cursor>>

GetFullInfoForCurrentMatch(c) ==
    GetFullInfoForCurrentMatchReturned(c, getFullInfoForCurrentMatch(cursor[c], documentMap))

\* createMatchedLinePattern(levelOfDetail): the pattern array returned, and
\* the line count of the cached line index, which over levelOfDetail is the
\* linesPerArraySlot returned
CreateMatchedLinePatternUpdated(c, levelOfDetail, u) ==
    /\ Returned(c, u)
    /\ last' = [op |-> "createMatchedLinePattern", c |-> c, threw |-> u.threw,
                levelOfDetail |-> levelOfDetail,
                lines |-> IF u.threw THEN 0
                          ELSE Len(_getDocumentIndex(u.map, u.cursor.doc[1])),
                ret |-> IF u.threw THEN <<>>
                        ELSE fillWithMatchedLinePattern(u.cursor.regexIndexer[1],
                                 [slot \in 1..levelOfDetail |-> 0])]

CreateMatchedLinePatternOf(c, levels) ==
    \E levelOfDetail \in levels :
        CreateMatchedLinePatternUpdated(c, levelOfDetail,
                                        _updateResultsIfNeeded(cursor[c], documentMap))

CreateMatchedLinePattern(c) == CreateMatchedLinePatternOf(c, 1..MaxDetail)

\* getDocCharacterCount: the last entry of the document's line index
GetDocCharacterCountUpdated(c, u) ==
    /\ Returned(c, u)
    /\ last' = [op |-> "getDocCharacterCount", c |-> c, threw |-> u.threw,
                ret |-> IF u.threw THEN 0
                        ELSE _getDocumentIndex(u.map, u.cursor.doc[1])[
                                 Len(_getDocumentIndex(u.map, u.cursor.doc[1]))]]

GetDocCharacterCount(c) ==
    GetDocCharacterCountUpdated(c, _updateResultsIfNeeded(cursor[c], documentMap))

GetCurrentMatchNumberUpdated(c, u) ==
    /\ Returned(c, u)
    /\ last' = [op |-> "getCurrentMatchNumber", c |-> c, threw |-> u.threw,
                ret |-> IF u.threw THEN 0
                        ELSE getCurrentMatchNumber(u.cursor.regexIndexer[1])]

GetCurrentMatchNumber(c) ==
    GetCurrentMatchNumberUpdated(c, _updateResultsIfNeeded(cursor[c], documentMap))

Scanned(c, u) ==
    /\ Returned(c, u)
    /\ last' = [op |-> "scanDocumentAndStoreResultsInCursor", c |-> c,
                threw |-> u.threw, ret |-> u.ret]

ScanDocumentAndStoreResultsInCursor(c) ==
    Scanned(c, scanDocumentAndStoreResultsInCursor(cursor[c], documentMap))

\* The ranges of a text: two of its positions, from at or before to
RangesOf(text) ==
    {r \in [from : PositionsOf(text), to : PositionsOf(text)] :
        \/ r.from.line < r.to.line
        \/ r.from.line = r.to.line /\ r.from.ch <= r.to.ch}

\* The properties a caller passes to scanDocumentForMatches for document d
\* with a query of `queries`: with or without a range
ScanProperties(d, queries) ==
    [document : {d}, searchQuery : queries, ignoreCase : BOOLEAN,
     range : Option(RangesOf(docText[d]))]

ScanDocumentForMatchesCalled(properties, r) ==
    /\ documentMap' = r.map
    /\ last' = [op |-> "scanDocumentForMatches", properties |-> properties,
                calls |-> r.calls]
    /\ UNCHANGED <<docText, docGeneration, cursor>>

ScanDocumentForMatches(d, queries) ==
    \E properties \in ScanProperties(d, queries) :
        ScanDocumentForMatchesCalled(properties,
                                     scanDocumentForMatches(documentMap, properties))

\* The same call made without a range
ScanWholeDocumentForMatches(d, queries) ==
    \E properties \in {p \in ScanProperties(d, queries) : p.range = None} :
        ScanDocumentForMatchesCalled(properties,
                                     scanDocumentForMatches(documentMap, properties))

---------------------------------------------------------------------------
(* Specifications *)

NoCall == [op |-> "none"]

NoDocumentIndexed(docs) ==
    /\ docGeneration = [d \in docs |-> 0]
    /\ documentMap = [d \in docs |-> None]

\* Spec: one cursor, just created, on one document the editor holds
Init ==
    /\ docText \in [{"d1"} -> TextPool]
    /\ NoDocumentIndexed({"d1"})
    /\ cursor = [c \in {"A"} |-> NewCursor]
    /\ last = NoCall

Next ==
    \/ \E c \in DOMAIN cursor : SetSearchDocumentAndQuery(c)
    \/ \E d \in DOMAIN docText : EditDocument(d)
    \/ \E c \in DOMAIN cursor, reverse \in BOOLEAN : Find(c, reverse)
    \/ \E c \in DOMAIN cursor : GetMatchCount(c)
    \/ \E c \in DOMAIN cursor : ForEachMatch(c)
    \/ \E c \in DOMAIN cursor : ScanDocumentAndStoreResultsInCursor(c)
    \/ \E c \in DOMAIN cursor : GetCurrentMatchNumber(c)

Spec == Init /\ [][Next]_vars

\* SpecDocs: one cursor and two documents it is switched between
InitDocs ==
    /\ docText \in [{"d1", "d2"} -> TextPool]
    /\ NoDocumentIndexed({"d1", "d2"})
    /\ cursor = [c \in {"A"} |-> NewCursor]
    /\ last = NoCall

NextDocs ==
    \/ \E c \in DOMAIN cursor : SetSearchDocumentAndQuery(c)
    \/ \E c \in DOMAIN cursor, reverse \in BOOLEAN : Find(c, reverse)
    \/ \E c \in DOMAIN cursor : GetMatchCount(c)

SpecDocs == InitDocs /\ [][NextDocs]_vars

\* SpecSet: one cursor on one document, its calls of
\* setSearchDocumentAndQuery recorded with their properties
NextSet ==
    \/ \E c \in DOMAIN cursor : SetSearchDocumentAndQueryObserved(c)
    \/ \E c \in DOMAIN cursor, reverse \in BOOLEAN : Find(c, reverse)
    \/ \E c \in DOMAIN cursor : GetMatchCount(c)
    \/ \E c \in DOMAIN cursor : GetFullInfoForCurrentMatch(c)

SpecSet == Init /\ [][NextSet]_vars

\* SpecOps: one cursor, just created, on one document, and every operation
\* of the cursor
NextOps ==
    \/ \E c \in DOMAIN cursor : SetSearchDocumentAndQuery(c)
    \/ \E c \in DOMAIN cursor, reverse \in BOOLEAN : Find(c, reverse)
    \/ \E c \in DOMAIN cursor : GetMatchCount(c)
    \/ \E c \in DOMAIN cursor : GetCurrentMatchNumber(c)
    \/ \E c \in DOMAIN cursor : GetDocCharacterCount(c)
    \/ \E c \in DOMAIN cursor : ForEachMatch(c)
    \/ \E c \in DOMAIN cursor : ForEachMatchWithinRange(c)
    \/ \E c \in DOMAIN cursor : CreateMatchedLinePattern(c)
    \/ \E c \in DOMAIN cursor : GetFullInfoForCurrentMatch(c)
    \/ \E c \in DOMAIN cursor : ScanDocumentAndStoreResultsInCursor(c)

SpecOps == Init /\ [][NextOps]_vars

\* SpecNear: _findResultIndexNearPos on the group arrays of one-character
\* matches that start at the offsets of a set, in ascending order
RECURSIVE GroupsFrom(_, _)
GroupsFrom(starts, s) ==
    IF s > MaxStart THEN <<>>
    ELSE (IF s \in starts THEN <<s, s + 1>> ELSE <<>>) \o GroupsFrom(starts, s + 1)

InitNear ==
    /\ docText = [d \in {"d1"} |-> <<>>]
    /\ NoDocumentIndexed({"d1"})
    /\ cursor = [c \in {} |-> NewCursor]
    /\ last \in {[op |-> "array", array |-> GroupsFrom(starts, 0)] :
                      starts \in SUBSET (0..MaxStart)}

FindResultIndexNearPos(pos, reverse) ==
    /\ last' = [op |-> "_findResultIndexNearPos", array |-> last.array,
                pos |-> pos, reverse |-> reverse,
                ret |-> _findResultIndexNearPos(last.array, pos, reverse)]
    /\ UNCHANGED <<docText, docGeneration, documentMap, cursor>>

NextNear == \E pos \in 0..(MaxStart + 1), reverse \in BOOLEAN : FindResultIndexNearPos(pos, reverse)

SpecNear == InitNear /\ [][NextNear]_vars

\* SpecReadOnly: one cursor, just created, given a document and queries,
\* find and the operations that only read, and the editor changing the
\* document
SetDocumentAndQuery(c) ==
    \E properties \in PropertiesOfShape(c, {"document", "searchQuery"}, QueryPool)
                          \cup PropertiesOfShape(c, {"searchQuery"}, QueryPool) :
        SetSearchDocumentAndQueryCalled(c, properties,
            [op |-> "setSearchDocumentAndQuery", c |-> c])

NextReadOnly ==
    \/ \E c \in DOMAIN cursor : SetDocumentAndQuery(c)
    \/ \E d \in DOMAIN docText : EditDocument(d)
    \/ \E c \in DOMAIN cursor, reverse \in BOOLEAN : Find(c, reverse)
    \/ \E c \in DOMAIN cursor : GetMatchCount(c)
    \/ \E c \in DOMAIN cursor : GetCurrentMatchNumber(c)
    \/ \E c \in DOMAIN cursor : GetDocCharacterCount(c)
    \/ \E c \in DOMAIN cursor : ForEachMatch(c)
    \/ \E c \in DOMAIN cursor : ForEachMatchWithinRange(c)
    \/ \E c \in DOMAIN cursor : CreateMatchedLinePattern(c)

SpecReadOnly == Init /\ [][NextReadOnly]_vars

\* SpecRescan: one cursor, just created, on a document the editor changes
\* between texts whose lines differ in length
RescanTextPool == {<<"a">>, <<"a", "a", "a">>, <<"\n", "a", "a">>, <<"a", "\n", "a">>}

InitRescan ==
    /\ docText \in [{"d1"} -> RescanTextPool]
    /\ NoDocumentIndexed({"d1"})
    /\ cursor = [c \in {"A"} |-> NewCursor]
    /\ last = NoCall

NextRescan ==
    \/ \E c \in DOMAIN cursor : SetDocumentAndQuery(c)
    \/ \E d \in DOMAIN docText : EditDocumentTo(d, RescanTextPool)
    \/ \E c \in DOMAIN cursor, reverse \in BOOLEAN : Find(c, reverse)
    \/ \E c \in DOMAIN cursor : GetMatchCount(c)
    \/ \E c \in DOMAIN cursor : GetCurrentMatchNumber(c)

SpecRescan == InitRescan /\ [][NextRescan]_vars

\* SpecCache: one cursor, just created, on a document the editor changes,
\* the operations that refresh the document cache, and scans made without
\* the cursor
NextCache ==
    \/ \E c \in DOMAIN cursor : SetDocumentAndQuery(c)
    \/ \E d \in DOMAIN docText : EditDocument(d)
    \/ \E c \in DOMAIN cursor, reverse \in BOOLEAN : Find(c, reverse)
    \/ \E c \in DOMAIN cursor : GetMatchCount(c)
    \/ \E c \in DOMAIN cursor : GetCurrentMatchNumber(c)
    \/ \E c \in DOMAIN cursor : ForEachMatch(c)
    \/ \E c \in DOMAIN cursor : ForEachMatchWithinRange(c)
    \/ \E c \in DOMAIN cursor : CreateMatchedLinePattern(c)
    \/ \E c \in DOMAIN cursor : ScanDocumentAndStoreResultsInCursor(c)
    \/ \E d \in DOMAIN docText : ScanWholeDocumentForMatches(d, QueryPool)

SpecCache == Init /\ [][NextCache]_vars

\* SpecPattern: createMatchedLinePattern on a cursor created on a document
\* of up to PatternLines lines, one of which holds the match
TextWithMatchOn(line, lineCount) ==
    [i \in 1..lineCount |-> IF i = line + 1 THEN "a" ELSE LineSeparator[1]]

PatternTexts ==
    {TextWithMatchOn(line, lineCount) :
        line \in 0..(PatternLines - 1), lineCount \in 1..PatternLines} \ {<<>>}

InitPattern ==
    /\ docText \in [{"d1"} -> {text \in PatternTexts : \E i \in 1..Len(text) : text[i] = "a"}]
    /\ NoDocumentIndexed({"d1"})
    /\ cursor = [c \in {"A"} |->
          setSearchDocumentAndQuery(NewCursor,
              Properties(Some("d1"), Some([source |-> "a"]), None, None, None))]
    /\ last = NoCall

NextPattern == \E c \in DOMAIN cursor : CreateMatchedLinePatternOf(c, 1..PatternDetail)

SpecPattern == InitPattern /\ [][NextPattern]_vars

\* SpecGroups: the stepping functions of a group array of one-character
\* matches, from the state _makeGroupArray leaves it in
InitGroups ==
    /\ docText = [d \in {"d1"} |-> <<>>]
    /\ NoDocumentIndexed({"d1"})
    /\ cursor = [c \in {} |-> NewCursor]
    /\ last \in {[op |-> "_makeGroupArray", array |-> GroupsFrom(starts, 0),
                   before |-> 0 - GroupSize, current |-> 0 - GroupSize, ret |-> JsUndefined] :
                      starts \in SUBSET (0..MaxStart)}

GroupStepped(op, g) ==
    /\ last' = [op |-> op, array |-> last.array, before |-> last.current,
                current |-> g.current, ret |-> g.ret]
    /\ UNCHANGED <<docText, docGeneration, documentMap, cursor>>

NextGroupIndex == GroupStepped("nextGroupIndex", nextGroupIndex(last.array, last.current))

PrevGroupIndex == GroupStepped("prevGroupIndex", prevGroupIndex(last.array, last.current))

\* setCurrentGroup(groupNumber), with the match numbers find passes: those
\* that pass `if (matchIndex)`
SetCurrentGroup ==
    \E groupNumber \in 1..(itemCount(last.array) - 1) :
        GroupStepped("setCurrentGroup",
                     [current |-> groupNumber * GroupSize, ret |-> JsUndefined])

NextGroups == NextGroupIndex \/ PrevGroupIndex \/ SetCurrentGroup

SpecGroups == InitGroups /\ [][NextGroups]_vars

\* SpecPos: the conversion of a position of a document to its offset and
\* back, with the document's line index
InitPos ==
    /\ docText \in [{"d1"} -> AllTexts]
    /\ NoDocumentIndexed({"d1"})
    /\ cursor = [c \in {} |-> NewCursor]
    /\ last = NoCall

PosFromIndexOfPos(d, lineIndex, pos, index) ==
    /\ last' = [op |-> "_createPosFromIndex", doc |-> d, pos |-> pos, index |-> index,
                ret |-> _createPosFromIndex(lineIndex, 0, index)]
    /\ UNCHANGED <<docText, docGeneration, documentMap, cursor>>

ConvertPosition(d, lineIndex) ==
    \E pos \in PositionsOf(docText[d]) :
        PosFromIndexOfPos(d, lineIndex, pos, _indexFromPos(lineIndex, pos))

IndexFromPosOfIndex(d, lineIndex, off, pos) ==
    /\ last' = [op |-> "_indexFromPos", doc |-> d, off |-> off, pos |-> pos,
                ret |-> _indexFromPos(lineIndex, pos)]
    /\ UNCHANGED <<docText, docGeneration, documentMap, cursor>>

\* The offsets below the last entry of the line index, the character count
ConvertOffset(d, lineIndex) ==
    \E off \in 0..(lineIndex[Len(lineIndex)] - 1) :
        IndexFromPosOfIndex(d, lineIndex, off, _createPosFromIndex(lineIndex, 0, off))

NextPos ==
    \/ \E d \in DOMAIN docText :
           ConvertPosition(d, _createLineCharacterCountIndex(docText[d], LineSeparator))
    \/ \E d \in DOMAIN docText :
           ConvertOffset(d, _createLineCharacterCountIndex(docText[d], LineSeparator))

SpecPos == InitPos /\ [][NextPos]_vars

\* SpecShared: two cursors created by createSearchCursor on the same document
InitShared ==
    /\ docText \in [{"d1"} -> TextPool]
    /\ NoDocumentIndexed({"d1"})
    /\ cursor \in [{"A", "B"} ->
          {setSearchDocumentAndQuery(NewCursor,
               Properties(Some("d1"), Some(q), None, None, None)) : q \in QueryPool}]
    /\ last = NoCall

NextShared ==
    \/ \E d \in DOMAIN docText : EditDocument(d)
    \/ \E c \in DOMAIN cursor, reverse \in BOOLEAN : Find(c, reverse)
    \/ \E c \in DOMAIN cursor : GetMatchCount(c)

SpecShared == InitShared /\ [][NextShared]_vars

\* SpecScan: a cursor created by createSearchCursor(properties) on a
\* document of any text up to MaxLen characters, then scanned
InitScan ==
    /\ docText \in [{"d1"} -> AllTexts]
    /\ NoDocumentIndexed({"d1"})
    /\ \E searchQuery \in ScanQueryPool, ignoreCase \in BOOLEAN,
          maxResults \in Option(1..ScanMaxResults),
          position \in Option(PositionsOf(docText["d1"])) :
            cursor = [c \in {"A"} |->
                setSearchDocumentAndQuery(NewCursor,
                    Properties(Some("d1"), Some(searchQuery), position,
                               Some(ignoreCase), maxResults))]
    /\ last = NoCall

NextScan ==
    \/ \E c \in DOMAIN cursor : ScanDocumentAndStoreResultsInCursor(c)
    \/ \E c \in DOMAIN cursor : GetMatchCount(c)
    \/ \E c \in DOMAIN cursor : GetDocCharacterCount(c)

SpecScan == InitScan /\ [][NextScan]_vars

\* SpecEach: a cursor created by createSearchCursor(properties) on a
\* document of any text up to MaxLen characters, then traversed
InitEach ==
    /\ docText \in [{"d1"} -> AllTexts]
    /\ NoDocumentIndexed({"d1"})
    /\ \E searchQuery \in EachQueryPool, ignoreCase \in BOOLEAN,
          position \in Option(PositionsOf(docText["d1"])) :
            cursor = [c \in {"A"} |->
                setSearchDocumentAndQuery(NewCursor,
                    Properties(Some("d1"), Some(searchQuery), position,
                               Some(ignoreCase), None))]
    /\ last = NoCall

NextEach ==
    \/ \E c \in DOMAIN cursor : ForEachMatch(c)
    \/ \E c \in DOMAIN cursor : ForEachMatchWithinRange(c)

SpecEach == InitEach /\ [][NextEach]_vars

\* SpecForMatches: a document of any text up to MaxLen characters that
\* callers scan with scanDocumentForMatches and the editor changes
InitForMatches ==
    /\ docText \in [{"d1"} -> AllTexts]
    /\ NoDocumentIndexed({"d1"})
    /\ cursor = [c \in {} |-> NewCursor]
    /\ last = NoCall

NextForMatches ==
    \/ \E d \in DOMAIN docText : ScanDocumentForMatches(d, ForMatchesQueryPool)
    \/ \E d \in DOMAIN docText : EditDocument(d)

SpecForMatches == InitForMatches /\ [][NextForMatches]_vars

\* SpecForMatchesCursor: a cursor created by createSearchCursor on a
\* document that callers also scan with scanDocumentForMatches and the
\* editor changes
InitForMatchesCursor ==
    /\ docText \in [{"d1"} -> TextPool]
    /\ NoDocumentIndexed({"d1"})
    /\ cursor \in [{"A"} ->
          {setSearchDocumentAndQuery(NewCursor,
               Properties(Some("d1"), Some(q), None, None, None)) : q \in QueryPool}]
    /\ last = NoCall

NextForMatchesCursor ==
    \/ \E d \in DOMAIN docText : ScanDocumentForMatches(d, QueryPool)
    \/ \E d \in DOMAIN docText : EditDocument(d)
    \/ \E c \in DOMAIN cursor, reverse \in BOOLEAN : Find(c, reverse)
    \/ \E c \in DOMAIN cursor : GetMatchCount(c)

SpecForMatchesCursor == InitForMatchesCursor /\ [][NextForMatchesCursor]_vars

\* SpecZeroWidth: a document of any text up to MaxLen characters and a
\* cursor created on it with a query that matches the empty string; the
\* cursor scans, and callers scan with scanDocumentForMatches
InitZeroWidth ==
    /\ docText \in [{"d1"} -> AllTexts]
    /\ NoDocumentIndexed({"d1"})
    /\ \E searchQuery \in ZeroWidthQueryPool, ignoreCase \in BOOLEAN,
          position \in Option(PositionsOf(docText["d1"])) :
            cursor = [c \in {"A"} |->
                setSearchDocumentAndQuery(NewCursor,
                    Properties(Some("d1"), Some(searchQuery), position,
                               Some(ignoreCase), None))]
    /\ last = NoCall

NextZeroWidth ==
    \/ \E c \in DOMAIN cursor : ScanDocumentAndStoreResultsInCursor(c)
    \/ \E d \in DOMAIN docText : ScanWholeDocumentForMatches(d, ZeroWidthQueryPool)

SpecZeroWidth == InitZeroWidth /\ [][NextZeroWidth]_vars

---------------------------------------------------------------------------
(* What the claims are stated with.  These definitions describe expected   *)
(* results independently of the indexer's code: a table is read as its     *)
(* list of (start, end) pairs, and ScanFrom is the list a global regular   *)
(* expression yields when iterated from an offset to the end of the text.  *)

Pairs(array) == [k \in 1..(Len(array) \div 2) |-> <<array[2 * k - 1], array[2 * k]>>]

RECURSIVE ScanFrom(_, _, _)
ScanNext(text, regex, m) ==
    IF ~m.matched THEN <<>>
    ELSE <<<<m.index, m.lastIndex>>>> \o
         ScanFrom(text, regex, IF m.lastIndex = m.index THEN m.index + 1 ELSE m.lastIndex)

ScanFrom(text, regex, offset) == ScanNext(text, regex, Exec(regex, text, offset))

\* The full match list of a text in document order
FullScan(text, regex) == ScanFrom(text, regex, 0)

Min(a, b) == IF a <= b THEN a ELSE b

\* The cursors whose match table is the result of a scan
HasTable(c) == cursor[c].regexIndexer # None
TableOf(c) == Pairs(cursor[c].regexIndexer[1].array)
TextOf(c) == docText[cursor[c].doc[1]]

\* In the scan specification the cursor's fields are those the scan was made with
StartOffsetOf(c) ==
    IF cursor[c].currentPosition = None THEN 0
    ELSE _indexFromPos(_createLineCharacterCountIndex(TextOf(c), LineSeparator),
                       cursor[c].currentPosition[1].from)

Limited(c) == cursor[c].maxResults # JsUndefined
FullOf(c) == FullScan(TextOf(c), cursor[c].query[1])

---------------------------------------------------------------------------
(* C4: maxResults is a ceiling.  After a scan with maxResults = m >= 1 the *)
(* table holds at most m matches, and exactly m when it holds fewer than   *)
(* the document's full match list.  Checked under SpecScan.                *)
C4_MaxResultsIsCeiling ==
    \A c \in DOMAIN cursor :
        (HasTable(c) /\ Limited(c)) =>
            /\ Len(TableOf(c)) <= cursor[c].maxResults
            /\ (Len(TableOf(c)) < Len(FullOf(c)) =>
                    Len(TableOf(c)) = cursor[c].maxResults)

(* C5: two-phase equivalence.  With no maxResults the table of a scan that *)
(* starts at any position is the list of a single scan from offset 0.      *)
C5_TwoPhaseEquivalence ==
    \A c \in DOMAIN cursor :
        (HasTable(c) /\ ~Limited(c)) => TableOf(c) = FullOf(c)

(* C6: monotonicity.  After any scan the table's start offsets are         *)
(* strictly ascending.                                                     *)
C6_Monotonicity ==
    \A c \in DOMAIN cursor :
        HasTable(c) =>
            \A k \in 1..(Len(TableOf(c)) - 1) : TableOf(c)[k][1] < TableOf(c)[k + 1][1]

\* A scan from inside the text that made both searches, dropped a duplicate
\* on the edge and holds a zero-length match
C6_Witness ==
    \E c \in DOMAIN cursor :
        /\ HasTable(c) /\ StartOffsetOf(c) > 0
        /\ Len(TableOf(c)) >= 3
        /\ TableOf(c)[1][1] < StartOffsetOf(c)
        /\ \E k \in 1..Len(TableOf(c)) :
              TableOf(c)[k][1] = StartOffsetOf(c) /\ TableOf(c)[k][2] = StartOffsetOf(c)

(* C7: no overlapping matches.  After any scan consecutive matches do not  *)
(* overlap, and every match before the start offset s (the second search's *)
(* matches) ends at or before s.                                           *)
C7_NoOverlap ==
    \A c \in DOMAIN cursor :
        HasTable(c) =>
            /\ \A k \in 1..(Len(TableOf(c)) - 1) : TableOf(c)[k][2] <= TableOf(c)[k + 1][1]
            /\ \A k \in 1..Len(TableOf(c)) :
                  TableOf(c)[k][1] < StartOffsetOf(c) => TableOf(c)[k][2] <= StartOffsetOf(c)

\* The index in list of the first match starting at or after s, 1 when none does
FirstAtOrAfter(list, s) ==
    IF \E k \in 1..Len(list) : list[k][1] >= s
    THEN CHOOSE k \in 1..Len(list) :
            list[k][1] >= s /\ \A j \in 1..(k - 1) : list[j][1] < s
    ELSE 1

\* The run of n entries of list taken cyclically from index j
CyclicRun(list, j, n) == {list[((j - 1 + i) % Len(list)) + 1] : i \in 0..(n - 1)}

ToSet(list) == {list[k] : k \in 1..Len(list)}

(* C8: near-cursor truncation window.  When the table retains fewer        *)
(* matches than the full match list, they are one contiguous run of that   *)
(* list, taken cyclically from the first match at or after the start       *)
(* position.                                                               *)
C8_NearCursorWindow ==
    \A c \in DOMAIN cursor :
        (HasTable(c) /\ Len(TableOf(c)) < Len(FullOf(c))) =>
            ToSet(TableOf(c)) =
                CyclicRun(FullOf(c), FirstAtOrAfter(FullOf(c), StartOffsetOf(c)),
                          Len(TableOf(c)))

(* C9: first-phase truncation.  When at least maxResults matches are found *)
(* from the start position on, the table is exactly the first maxResults   *)
(* of them (so the scan stopped there and made no second search).          *)
C9_FirstPhaseTruncation ==
    \A c \in DOMAIN cursor :
        (/\ HasTable(c) /\ Limited(c)
         /\ Len(ScanFrom(TextOf(c), cursor[c].query[1], StartOffsetOf(c)))
                >= cursor[c].maxResults) =>
            TableOf(c) = SubSeq(ScanFrom(TextOf(c), cursor[c].query[1], StartOffsetOf(c)),
                                1, cursor[c].maxResults)

\* A truncating scan from inside the text, with matches before the start left out
C9_Witness ==
    \E c \in DOMAIN cursor :
        /\ HasTable(c) /\ Limited(c) /\ StartOffsetOf(c) > 0
        /\ cursor[c].maxResults >= 2
        /\ Len(ScanFrom(TextOf(c), cursor[c].query[1], StartOffsetOf(c)))
               > cursor[c].maxResults
        /\ Len(TableOf(c)) = cursor[c].maxResults
        /\ FullOf(c)[1][1] < StartOffsetOf(c)

---------------------------------------------------------------------------
(* The claims about a cursor's operations *)

\* The pair (start, end) is a match of the regular expression at its place in the text
IsMatchAt(text, regex, pair) ==
    /\ pair[1] <= Len(text)
    /\ Exec(regex, text, pair[1]).matched
    /\ Exec(regex, text, pair[1]).index = pair[1]
    /\ Exec(regex, text, pair[1]).lastIndex = pair[2]

LimitOf(c) == OrElse(cursor[c].maxResults, DefaultMaxResults)

\* The cursor's table holds matches of its query in its document's text, as
\* many as the text has, up to maxResults
ReflectsText(c) ==
    /\ \A k \in 1..Len(TableOf(c)) : IsMatchAt(TextOf(c), cursor[c].query[1], TableOf(c)[k])
    /\ Len(TableOf(c)) = Min(Len(FullOf(c)), LimitOf(c))

\* The document of cursor c was indexed and has been edited since
EditedSinceIndexed(c) ==
    /\ cursor[c].doc # None
    /\ documentMap[cursor[c].doc[1]] # None
    /\ documentMap[cursor[c].doc[1]][1].generation # docGeneration[cursor[c].doc[1]]

QueryOps == {"find", "getMatchCount", "forEachMatch"}

(* C1: revision sensitivity, single cursor.  When the document was edited  *)
(* since it was indexed, the next find / getMatchCount / forEachMatch      *)
(* leaves a table whose every range is a match of the query in the new     *)
(* text and whose count is the number of matches of the new text, up to    *)
(* maxResults.  Checked under Spec, where the cursor is the only user of   *)
(* the document's cache entry.                                             *)
C1_RevisionSensitivity ==
    [][\A c \in DOMAIN cursor :
          (/\ EditedSinceIndexed(c)
           /\ last'.op \in QueryOps
           /\ last'.c = c
           /\ ~last'.threw) => ReflectsText(c)']_vars

(* C2: no interference between cursors sharing a cache entry.  With two    *)
(* cursors on the same document, whenever getMatchCount or find of either  *)
(* returns, that cursor's table reflects the document's text as it is now, *)
(* whichever cursor refreshed the cache entry first.  Checked under        *)
(* SpecShared.                                                             *)
C2_NoInterference ==
    (last.op \in {"getMatchCount", "find"} /\ ~last.threw) => ReflectsText(last.c)

\* The tables a scan of the text with the regular expression can produce,
\* over the start offsets (NaN included) and the limits a scan can be given
ScanTables(text, regex) ==
    {Pairs(_createSearchResults(text, regex, startIndex, maxResults)) :
        startIndex \in (0..(Len(text) + 1)) \cup {JsNaN},
        maxResults \in (1..(MaxResultsBound + 1)) \cup {DefaultMaxResults}}

(* C3: freshness.  Where find, getMatchCount or forEachMatch has returned  *)
(* and resultsCurrent is true, the table is one a scan of the cursor's     *)
(* current document, at its current revision, with the current query       *)
(* source and the current ignoreCase produces.  The states between an edit *)
(* and the cursor's next operation, where the refresh is still due, are    *)
(* left out.                                                               *)
C3_Freshness ==
    \A c \in DOMAIN cursor :
        (/\ last.op \in QueryOps
         /\ last.c = c /\ ~last.threw
         /\ cursor[c].resultsCurrent
         /\ HasTable(c) /\ cursor[c].doc # None /\ cursor[c].query # None) =>
            TableOf(c) \in ScanTables(TextOf(c),
                               _convertToRegularExpression(cursor[c].query[1],
                                                           cursor[c].ignoreCase))

\* The table index of the match find is to give from a seed offset
NearestIndex(table, seed, reverse) ==
    IF reverse
    THEN CHOOSE k \in 1..Len(table) :
            /\ table[k][1] <= seed
            /\ \A j \in 1..Len(table) : table[j][1] <= seed => table[j][1] <= table[k][1]
    ELSE CHOOSE k \in 1..Len(table) :
            /\ table[k][1] >= seed
            /\ \A j \in 1..Len(table) : table[j][1] >= seed => table[j][1] >= table[k][1]

InDirection(table, seed, reverse) ==
    \E k \in 1..Len(table) : IF reverse THEN table[k][1] <= seed ELSE table[k][1] >= seed

\* The cursor after find selected the table's k-th match
SelectedAt(c, k) ==
    /\ last.ret = Found(MatchAt(cursor[c].regexIndexer[1], (k - 1) * GroupSize))
    /\ getCurrentMatchNumber(cursor[c].regexIndexer[1]) = k - 1
    /\ cursor[c].currentPosition = Some(last.ret.range)

(* C10: seeded find.  When find(reverse) is called with no match selected  *)
(* and the table holds a match in the search direction from the seed       *)
(* offset, find returns the nearest such match, makes it the current match *)
(* and sets currentPosition to it, whatever the match's table index.       *)
C10_SeededFind ==
    (/\ last.op = "find" /\ ~last.threw
     /\ last.noCurrent
     /\ last.seed >= 0
     /\ InDirection(TableOf(last.c), last.seed, last.reverse)) =>
        SelectedAt(last.c, NearestIndex(TableOf(last.c), last.seed, last.reverse))

---------------------------------------------------------------------------
(* The claims about navigation *)

IndexerOf(c) == cursor[c].regexIndexer[1]

\* A match of the cursor's table is the current one
Selected(c) == HasTable(c) /\ IndexerOf(c).currentGroupIndex > 0 - 1

\* The (from, to) range of the k-th match (0-based) of the cursor's table
RangeOf(c, k) == MatchAt(IndexerOf(c), k * GroupSize)

\* The cursor's next operation will not rescan: its results are current and
\* its document is indexed at the document's generation
NoRescanDue(c) ==
    /\ HasTable(c) /\ cursor[c].resultsCurrent
    /\ ~_needToIndexDocument(documentMap, cursor[c].doc[1])

\* The step is a call of find(reverse) on cursor c that returned
FindReturns(c, reverse) ==
    last'.op = "find" /\ last'.c = c /\ ~last'.threw /\ last'.reverse = reverse

\* find(false) with match k selected, k not the last: match k + 1
ForwardStep(c) ==
    (/\ FindReturns(c, FALSE) /\ NoRescanDue(c) /\ Selected(c)
     /\ getCurrentMatchNumber(IndexerOf(c)) + 1 < Len(TableOf(c))) =>
        /\ last'.ret = Found(RangeOf(c, getCurrentMatchNumber(IndexerOf(c)) + 1))
        /\ getCurrentMatchNumber(cursor'[c].regexIndexer[1])
               = getCurrentMatchNumber(IndexerOf(c)) + 1
        /\ cursor'[c].currentPosition = Some(last'.ret.range)
        /\ cursor'[c].atOccurrence

\* find(false) with the last match selected: none
ForwardEnd(c) ==
    (/\ FindReturns(c, FALSE) /\ NoRescanDue(c) /\ Selected(c)
     /\ getCurrentMatchNumber(IndexerOf(c)) + 1 = Len(TableOf(c))) =>
        /\ last'.ret = RetFalse
        /\ ~cursor'[c].atOccurrence
        /\ cursor'[c].currentPosition = None

\* find(false) following the call that ran off the end: match 0
ForwardReseed(c) ==
    (/\ FindReturns(c, FALSE) /\ NoRescanDue(c)
     /\ last.op = "find" /\ last.c = c /\ ~last.threw /\ ~last.reverse
     /\ ~last.noCurrent /\ last.ret = RetFalse) =>
        /\ last'.ret = Found(RangeOf(c, 0))
        /\ getCurrentMatchNumber(cursor'[c].regexIndexer[1]) = 0

(* C11: forward traversal and reseed on end.  With match k selected,       *)
(* find(false) returns match k + 1 while there is one; the call after the  *)
(* last match returns none and leaves atOccurrence false and               *)
(* currentPosition unset; the find(false) that follows returns match 0.    *)
C11_ForwardTraversal ==
    [][\A c \in DOMAIN cursor : ForwardStep(c) /\ ForwardEnd(c) /\ ForwardReseed(c)]_vars

\* find(false) has just run off the end of a table of two matches or more
C11_Witness ==
    /\ last.op = "find" /\ ~last.threw /\ ~last.reverse /\ ~last.noCurrent
    /\ last.ret = RetFalse
    /\ Len(TableOf(last.c)) >= 2
    /\ ~cursor[last.c].atOccurrence /\ cursor[last.c].currentPosition = None

(* C12: atOccurrence.  In every reachable state, if atOccurrence is true   *)
(* then a match k >= 0 is the current one (getCurrentMatchNumber) and      *)
(* currentPosition is the range of match k of the cursor's table.          *)
C12_AtOccurrence ==
    \A c \in DOMAIN cursor :
        cursor[c].atOccurrence =>
            /\ Selected(c)
            /\ cursor[c].currentPosition =
                   Some(RangeOf(c, getCurrentMatchNumber(IndexerOf(c))))

\* What getCurrentMatchNumber returns when no rescan is due
NumberOf(c) == getCurrentMatchNumber(IndexerOf(c))

\* The step is a call of an operation of `ops` on cursor c that returned
Returns(c, ops) == last'.op \in ops /\ last'.c = c /\ ~last'.threw

\* The step rescans for cursor c: a scan, or an operation with a rescan due
Rescans(c) ==
    \/ Returns(c, {"scanDocumentAndStoreResultsInCursor"})
    \/ Returns(c, {"getMatchCount", "forEachMatch", "getCurrentMatchNumber"})
          /\ ~NoRescanDue(c)

\* The number is -1 or the index of a match of the table
NumberInRange(c) ==
    HasTable(c) =>
        \/ NumberOf(c) = 0 - 1
        \/ 0 <= NumberOf(c) /\ NumberOf(c) < Len(TableOf(c))

\* After find the number is the index of the match find returned, -1 if none
NumberAfterFind(c) ==
    Returns(c, {"find"}) =>
        IF last'.ret.kind = "range"
        THEN NumberInRange(c)' /\ NumberOf(c)' >= 0
                 /\ RangeOf(c, NumberOf(c))' = last'.ret.range
        ELSE NumberOf(c)' = 0 - 1

\* A fresh scan selects no match
NumberAfterScan(c) == Rescans(c) => NumberOf(c)' = 0 - 1

\* getCurrentMatchNumber returns the number
NumberReturned(c) ==
    Returns(c, {"getCurrentMatchNumber"}) => last'.ret = NumberOf(c)'

\* No other step changes the number
NumberKept(c) ==
    (/\ HasTable(c)
     /\ \/ last'.op \in {"setSearchDocumentAndQuery", "edit"}
        \/ Returns(c, {"getMatchCount", "forEachMatch", "getCurrentMatchNumber"})
              /\ NoRescanDue(c)) =>
        NumberOf(c)' = NumberOf(c)

(* C13: getCurrentMatchNumber.  It returns -1 when no match is selected    *)
(* (after a fresh scan, after find ran off either end) and otherwise the   *)
(* 0-based table index k of the match find returned last, with             *)
(* 0 <= k < getMatchCount().                                               *)
C13_CurrentMatchNumber ==
    [][\A c \in DOMAIN cursor :
          /\ NumberInRange(c)'
          /\ NumberAfterFind(c) /\ NumberAfterScan(c)
          /\ NumberReturned(c) /\ NumberKept(c)]_vars

\* getCurrentMatchNumber has returned the index of a match that is not the first
C13_Witness ==
    /\ last.op = "getCurrentMatchNumber" /\ ~last.threw
    /\ last.ret >= 1
    /\ cursor[last.c].currentPosition = Some(RangeOf(last.c, last.ret))

---------------------------------------------------------------------------
(* The claims about setSearchDocumentAndQuery *)

\* The step is a call setSearchDocumentAndQuery(properties) on cursor c
SetsProperties(c) ==
    last'.op = "setSearchDocumentAndQuery" /\ last'.c = c /\ ~last'.threw

\* Every field present in the properties has replaced the cursor's value
PresentReplaced(c, properties) ==
    /\ properties.document # None => cursor'[c].doc = properties.document
    /\ properties.searchQuery # None =>
          /\ cursor'[c].query # None
          /\ cursor'[c].query[1].source = properties.searchQuery[1].source
    /\ properties.position # None =>
          cursor'[c].currentPosition =
              Some(Range(properties.position[1], properties.position[1]))
    /\ properties.ignoreCase # None => cursor'[c].ignoreCase = properties.ignoreCase[1]
    /\ properties.maxResults # None => cursor'[c].maxResults = properties.maxResults[1]

\* Every field absent from the properties keeps the cursor's value
AbsentKept(c, properties) ==
    /\ properties.document = None => cursor'[c].doc = cursor[c].doc
    /\ properties.searchQuery = None => cursor'[c].query = cursor[c].query
    /\ properties.position = None =>
          cursor'[c].currentPosition = cursor[c].currentPosition
    /\ properties.ignoreCase = None => cursor'[c].ignoreCase = cursor[c].ignoreCase
    /\ properties.maxResults = None => cursor'[c].maxResults = cursor[c].maxResults

(* C14: partial update.  After setSearchDocumentAndQuery(properties) every *)
(* field present in properties has replaced the cursor's previous value,   *)
(* ignoreCase: false replacing a previous true included, and every absent  *)
(* field keeps its previous value.                                         *)
C14_PartialUpdate ==
    [][\A c \in DOMAIN cursor :
          SetsProperties(c) =>
              /\ PresentReplaced(c, last'.properties)
              /\ AbsentKept(c, last'.properties)]_vars

(* C15: query-change invalidation.  If the regular expression compiled by  *)
(* setSearchDocumentAndQuery differs from the one compiled before in its   *)
(* source or in its flags (ignoreCase), resultsCurrent becomes false.      *)
C15_QueryChangeInvalidates ==
    [][\A c \in DOMAIN cursor :
          (/\ SetsProperties(c)
           /\ last'.properties.searchQuery # None
           /\ cursor[c].query # None
           /\ \/ cursor'[c].query[1].source # cursor[c].query[1].source
              \/ cursor'[c].query[1].ignoreCase # cursor[c].query[1].ignoreCase) =>
              ~cursor'[c].resultsCurrent]_vars

\* The last call supplied a position to cursor c
PositionSupplied(c) ==
    /\ last.op = "setSearchDocumentAndQuery" /\ last.c = c /\ ~last.threw
    /\ last.properties.position # None

\* The call that supplies a position leaves no match selected
PositionDeselects(c) ==
    (SetsProperties(c) /\ last'.properties.position # None) =>
        /\ ~cursor'[c].atOccurrence
        /\ cursor'[c].regexIndexer # None =>
               getCurrentMatch(cursor'[c].regexIndexer[1]).kind # "range"

\* The find(false) that follows returns the first match at or after the position
FindFromPosition(c) ==
    (/\ PositionSupplied(c) /\ FindReturns(c, FALSE)
     /\ last'.seed >= 0
     /\ InDirection(Pairs(cursor'[c].regexIndexer[1].array), last'.seed, FALSE)) =>
        last'.ret = Found(MatchAt(cursor'[c].regexIndexer[1],
                                  (NearestIndex(Pairs(cursor'[c].regexIndexer[1].array),
                                                last'.seed, FALSE) - 1) * GroupSize))

(* C16: position reseed.  After setSearchDocumentAndQuery supplies a       *)
(* position p, atOccurrence is false and no match is selected, and the     *)
(* next find(false) returns the first match starting at or after p, not    *)
(* the successor of the match selected before, whether or not the query    *)
(* changed in the same call.                                               *)
C16_PositionReseed ==
    [][\A c \in DOMAIN cursor : PositionDeselects(c) /\ FindFromPosition(c)]_vars

---------------------------------------------------------------------------
(* The claims about traversal *)

\* Position p is at or before position q
PosLeq(p, q) == p.line < q.line \/ (p.line = q.line /\ p.ch <= q.ch)

\* The positions of the k-th table entry, each offset converted from line 0
EntryRange(c, k) ==
    Range(_createPosFromIndex(IndexerOf(c).docLineIndex, 0, TableOf(c)[k][1]),
          _createPosFromIndex(IndexerOf(c).docLineIndex, 0, TableOf(c)[k][2]))

(* C17: forEachMatch calls the callback once per table entry, in table     *)
(* order, with the positions its start and end offsets convert to from     *)
(* line 0; every reported position has ch >= 0 and from <= to.             *)
C17_ForEachMatch ==
    (last.op = "forEachMatch" /\ ~last.threw) =>
        /\ Len(last.calls) = Len(TableOf(last.c))
        /\ \A k \in 1..Len(last.calls) :
              /\ last.calls[k] = EntryRange(last.c, k)
              /\ last.calls[k].from.ch >= 0 /\ last.calls[k].to.ch >= 0
              /\ PosLeq(last.calls[k].from, last.calls[k].to)

\* The table entries forEachMatchWithinRange(from, to, fn) is to report:
\* start offset at or after the offset of from, start line at most to.line
InRange(c, from, to) ==
    {k \in 1..Len(TableOf(c)) :
        /\ TableOf(c)[k][1] >= _indexFromPos(IndexerOf(c).docLineIndex, from)
        /\ EntryRange(c, k).from.line <= to.line}

\* The i-th smallest member of a set of numbers
Nth(S, i) == CHOOSE k \in S : Cardinality({j \in S : j <= k}) = i

(* C18: forEachMatchWithinRange(from, to, fn) calls fn, in ascending       *)
(* order, for exactly the table matches whose start offset is at or after  *)
(* the offset of from and whose start line is at most to.line; on an empty *)
(* table it calls fn zero times.                                           *)
C18_ForEachMatchWithinRange ==
    (last.op = "forEachMatchWithinRange" /\ ~last.threw) =>
        /\ Len(last.calls) = Cardinality(InRange(last.c, last.from, last.to))
        /\ \A i \in 1..Len(last.calls) :
              last.calls[i] = EntryRange(last.c, Nth(InRange(last.c, last.from, last.to), i))

---------------------------------------------------------------------------
(* The claims about scanDocumentForMatches *)

\* The longest prefix of a list of (start, end) pairs whose ends are at most end
PrefixEndingBy(list, end) ==
    SubSeq(list, 1, Cardinality({k \in 1..Len(list) :
                                    \A j \in 1..k : list[j][2] <= end}))

\* The offsets of a range of a text, the whole text when there is no range
RangeStart(text, range) ==
    IF range = None THEN 0
    ELSE _indexFromPos(_createLineCharacterCountIndex(text, LineSeparator), range[1].from)

RangeEnd(text, range) ==
    IF range = None THEN Len(text)
    ELSE _indexFromPos(_createLineCharacterCountIndex(text, LineSeparator), range[1].to)

\* The matches scanDocumentForMatches(properties) is to report on a text
MatchesInRange(text, properties) ==
    PrefixEndingBy(ScanFrom(text,
                            [source |-> properties.searchQuery.source,
                             ignoreCase |-> properties.ignoreCase],
                            RangeStart(text, properties.range)),
                   RangeEnd(text, properties.range))

\* The calls report the matches of the list, in its order
Reports(calls, list, index) ==
    /\ Len(calls) = Len(list)
    /\ \A k \in 1..Len(calls) :
          /\ calls[k].index = list[k][1]
          /\ calls[k].from = _createPosFromIndex(index, 0, list[k][1])
          /\ calls[k].to = _createPosFromIndex(index, 0, list[k][2])

(* C19: scanDocumentForMatches calls the match callback once per match, in *)
(* ascending document order, for exactly the matches of one left-to-right  *)
(* scan that starts at range.from (offset 0 without a range) and that end  *)
(* at or before range.to (the document's end without a range), stopping at *)
(* the first match that ends beyond the range.                             *)
C19_ScanDocumentForMatches ==
    last.op = "scanDocumentForMatches" =>
        Reports(last.calls,
                MatchesInRange(docText[last.properties.document], last.properties),
                _createLineCharacterCountIndex(docText[last.properties.document],
                                               LineSeparator))

\* A scan of a range from inside the text that reported two matches or
\* more, the last ending at the range's end, and stopped at a match beyond it
C19_Witness ==
    /\ last.op = "scanDocumentForMatches"
    /\ last.properties.range # None
    /\ RangeStart(docText[last.properties.document], last.properties.range) > 0
    /\ Len(last.calls) >= 2
    /\ _indexFromPos(_createLineCharacterCountIndex(docText[last.properties.document],
                                                    LineSeparator),
                     last.calls[Len(last.calls)].to)
           = RangeEnd(docText[last.properties.document], last.properties.range)
    /\ Len(ScanFrom(docText[last.properties.document],
                    [source |-> last.properties.searchQuery.source,
                     ignoreCase |-> last.properties.ignoreCase],
                    RangeStart(docText[last.properties.document], last.properties.range)))
           > Len(last.calls)

\* What getMatchCount of a cursor returns with cache map: the count, or -1
\* when it throws
MatchCountUpdated(u) ==
    IF u.threw THEN 0 - 1 ELSE itemCount(u.cursor.regexIndexer[1].array)

MatchCountWith(cur, map) == MatchCountUpdated(_updateResultsIfNeeded(cur, map))

\* What find(reverse) of a cursor returns with cache map
FindUpdatedRet(u, reverse) ==
    IF u.threw THEN RetUndefined ELSE FindInResults(u.cursor, u.map, reverse).ret

FindWith(cur, map, reverse) == FindUpdatedRet(_updateResultsIfNeeded(cur, map), reverse)

(* C20: scanDocumentForMatches retains no state.  Whatever edits came      *)
(* before, a call of scanDocumentForMatches leaves every cursor on the     *)
(* document answering its next getMatchCount and find as it would have     *)
(* without the call.                                                       *)
C20_ScanRetainsNoState ==
    [][last'.op = "scanDocumentForMatches" =>
          \A c \in DOMAIN cursor :
              /\ MatchCountWith(cursor'[c], documentMap') = MatchCountWith(cursor[c], documentMap)
              /\ \A reverse \in BOOLEAN :
                    FindWith(cursor'[c], documentMap', reverse)
                        = FindWith(cursor[c], documentMap, reverse)]_vars

---------------------------------------------------------------------------
(* The claims about zero-width matches *)

(* C21: zero-width progress.  For every text and every query that matches  *)
(* the empty string the scan loops end: the cursor's scan, with both its   *)
(* searches, leaves a table of at most |text| + 1 matches, and             *)
(* scanDocumentForMatches reports at most |text| + 1 matches.  Each pass   *)
(* of a loop stores or reports one match, so the bound on the matches is   *)
(* a bound on the passes.                                                  *)
C21_ZeroWidthProgress ==
    /\ \A c \in DOMAIN cursor :
          HasTable(c) => Len(TableOf(c)) <= Len(TextOf(c)) + 1
    /\ last.op = "scanDocumentForMatches" =>
          Len(last.calls) <= Len(docText[last.properties.document]) + 1

\* A cursor scan from inside the text, made of both searches, and a scan by
\* scanDocumentForMatches, each with |text| + 1 matches, zero-width ones among them
C21_Witness ==
    /\ last.op = "scanDocumentForMatches"
    /\ Len(docText[last.properties.document]) >= 2
    /\ Len(last.calls) = Len(docText[last.properties.document]) + 1
    /\ \E c \in DOMAIN cursor :
          /\ HasTable(c) /\ StartOffsetOf(c) > 0
          /\ Len(TableOf(c)) = Len(TextOf(c)) + 1
          /\ TableOf(c)[1][1] < StartOffsetOf(c)
          /\ \E k \in 1..Len(TableOf(c)) : TableOf(c)[k][1] = TableOf(c)[k][2]

\* The cursor has scanned a text of one line with the query .* from offset 0
GreedyScanOfLine(c) ==
    /\ HasTable(c) /\ last.op = "scanDocumentAndStoreResultsInCursor" /\ last.c = c
    /\ cursor[c].query[1].source = ".*"
    /\ LineCount(TextOf(c)) = 1
    /\ StartOffsetOf(c) = 0

(* C22 as stated: scanning a text of one line and n characters with the    *)
(* greedy query .* from offset 0 yields n + 1 matches, the first spanning  *)
(* the line and the other n zero-width.                                    *)
C22_GreedyScanAsStated ==
    \A c \in DOMAIN cursor :
        GreedyScanOfLine(c) =>
            /\ Len(TableOf(c)) = Len(TextOf(c)) + 1
            /\ TableOf(c)[1] = <<0, Len(TextOf(c))>>
            /\ \A k \in 2..Len(TableOf(c)) : TableOf(c)[k][1] = TableOf(c)[k][2]

(* C22: scanning a text of one line and n characters with the greedy query *)
(* .* from offset 0 yields, for n >= 1, two matches: the line (0, n) and   *)
(* the zero-width match (n, n) at its end; for n = 0 the one zero-width    *)
(* match (0, 0).  The count returned is the table's length.                *)
C22_GreedyScan ==
    \A c \in DOMAIN cursor :
        GreedyScanOfLine(c) =>
            /\ TableOf(c) = IF Len(TextOf(c)) = 0 THEN <<<<0, 0>>>>
                            ELSE <<<<0, Len(TextOf(c))>>,
                                   <<Len(TextOf(c)), Len(TextOf(c))>>>>
            /\ last.ret = Len(TableOf(c))

\* The scan of a line of three characters or more
C22_Witness ==
    \E c \in DOMAIN cursor :
        GreedyScanOfLine(c) /\ Len(TextOf(c)) >= 3 /\ Len(TableOf(c)) = 2

---------------------------------------------------------------------------
(* The claims about the scan and the line index *)

\* The step is a scan by cursor c that follows a scan by c, nothing between
ScansAgain(c) ==
    /\ last.op = "scanDocumentAndStoreResultsInCursor" /\ last.c = c /\ ~last.threw
    /\ last'.op = "scanDocumentAndStoreResultsInCursor" /\ last'.c = c

(* C23: idempotent scan.  scanDocumentAndStoreResultsInCursor called twice *)
(* in a row, with no document change, query change or navigation between, *)
(* gives the same table, pair by pair, and returns the same count.         *)
C23_IdempotentScan ==
    [][\A c \in DOMAIN cursor :
          ScansAgain(c) =>
              /\ ~last'.threw
              /\ cursor'[c].regexIndexer[1].array = cursor[c].regexIndexer[1].array
              /\ last'.ret = last.ret]_vars

\* A scan from inside the text, under a limit, that made both searches: the
\* state a second scan starts from and ends in
C23_Witness ==
    \E c \in DOMAIN cursor :
        /\ last.op = "scanDocumentAndStoreResultsInCursor" /\ last.c = c /\ ~last.threw
        /\ HasTable(c) /\ Limited(c) /\ StartOffsetOf(c) > 0
        /\ Len(TableOf(c)) >= 2
        /\ TableOf(c)[1][1] < StartOffsetOf(c)
        /\ last.ret = Len(TableOf(c))

\* The offset at which line i (0-based) of a text starts: the characters of
\* the lines before it and their separators
RECURSIVE LineStart(_, _)
LineStart(lines, i) ==
    IF i = 0 THEN 0 ELSE LineStart(lines, i - 1) + Len(lines[i]) + Len(LineSeparator)

(* C24: document character count.  The last entry of the line index, which *)
(* getDocCharacterCount returns, is the number of characters of the        *)
(* document's text, and for every line i > 0 the start offset of line i is *)
(* the index's entry i - 1.                                                *)
C24_DocCharacterCount ==
    (last.op = "getDocCharacterCount" /\ ~last.threw) =>
        /\ last.ret = Len(TextOf(last.c))
        /\ \A i \in 1..(LineCount(TextOf(last.c)) - 1) :
              LineStart(Split(TextOf(last.c), LineSeparator), i)
                  = _getDocumentIndex(documentMap, cursor[last.c].doc[1])[i]

---------------------------------------------------------------------------
(* The claims about the current match's full information *)

\* getFullInfoForCurrentMatch reports match k: its positions, and a regex
\* match that starts and ends at its stored offsets
ReportsMatch(c, k) ==
    /\ ~last'.threw
    /\ last'.range = RangeOf(c, k)
    /\ last'.match.matched
    /\ last'.match.index = TableOf(c)[k + 1][1]
    /\ last'.match.lastIndex = TableOf(c)[k + 1][2]

(* C25: getFullInfoForCurrentMatch, called while match k is selected,      *)
(* returns the positions of match k and a regex match whose start is the   *)
(* stored start offset of k and whose end is the stored end offset of k;   *)
(* it does not change which match is selected.                             *)
C25_FullInfoForCurrentMatch ==
    [][\A c \in DOMAIN cursor :
          (/\ last'.op = "getFullInfoForCurrentMatch" /\ last'.c = c
           /\ Selected(c)) =>
              /\ ReportsMatch(c, NumberOf(c))
              /\ cursor'[c].regexIndexer = cursor[c].regexIndexer]_vars

---------------------------------------------------------------------------
(* The claims about errors *)

\* The step is a call of setSearchDocumentAndQuery on cursor c with a
\* searchQuery whose compilation fails
SetsInvalidQuery(c) ==
    /\ last'.op = "setSearchDocumentAndQuery" /\ last'.c = c
    /\ last'.properties.searchQuery # None
    /\ RegExpThrows(last'.properties.searchQuery[1].source)

(* C26: InvalidQuery.  If compiling the searchQuery passed to              *)
(* setSearchDocumentAndQuery fails, the error is raised to the caller and  *)
(* the cursor keeps its previously compiled query and its resultsCurrent   *)
(* flag as they were.                                                      *)
C26_InvalidQuery ==
    [][\A c \in DOMAIN cursor :
          SetsInvalidQuery(c) =>
              /\ last'.threw
              /\ cursor'[c].query = cursor[c].query
              /\ cursor'[c].resultsCurrent = cursor[c].resultsCurrent]_vars

\* The call failed on a cursor that holds a compiled query and current results
C26_Witness ==
    /\ last.op = "setSearchDocumentAndQuery" /\ last.threw
    /\ cursor[last.c].query # None
    /\ cursor[last.c].resultsCurrent
    /\ cursor[last.c].regexIndexer # None

\* The operations of a cursor other than setSearchDocumentAndQuery
CursorOps ==
    {"find", "getMatchCount", "getCurrentMatchNumber", "forEachMatch",
     "forEachMatchWithinRange", "createMatchedLinePattern",
     "getFullInfoForCurrentMatch", "scanDocumentAndStoreResultsInCursor"}

(* C27: NoDocument.  On a cursor that has never been given a document,     *)
(* every operation other than setSearchDocumentAndQuery fails with an      *)
(* error instead of returning a result, and leaves the cursor and the      *)
(* document cache as they were.                                            *)
C27_NoDocument ==
    [][\A c \in DOMAIN cursor :
          (cursor[c].doc = None /\ last'.op \in CursorOps /\ last'.c = c) =>
              /\ last'.threw
              /\ cursor'[c] = cursor[c]
              /\ documentMap' = documentMap]_vars

\* A cursor with a query and no document was asked for its line pattern
C27_Witness ==
    /\ last.op = "createMatchedLinePattern"
    /\ last.threw
    /\ cursor[last.c].doc = None
    /\ cursor[last.c].query # None

\* find(true) with no match selected and no position set, on a table of
\* n >= 1 matches: the last match, n - 1
ReverseFirst(c) ==
    (/\ FindReturns(c, TRUE) /\ NoRescanDue(c) /\ ~Selected(c)
     /\ cursor[c].currentPosition = None
     /\ Len(TableOf(c)) >= 1) =>
        /\ last'.ret = Found(RangeOf(c, Len(TableOf(c)) - 1))
        /\ getCurrentMatchNumber(cursor'[c].regexIndexer[1]) = Len(TableOf(c)) - 1

\* find(true) with match k selected, k not the first: match k - 1
ReverseStep(c) ==
    (/\ FindReturns(c, TRUE) /\ NoRescanDue(c) /\ Selected(c)
     /\ getCurrentMatchNumber(IndexerOf(c)) >= 1) =>
        /\ last'.ret = Found(RangeOf(c, getCurrentMatchNumber(IndexerOf(c)) - 1))
        /\ getCurrentMatchNumber(cursor'[c].regexIndexer[1])
               = getCurrentMatchNumber(IndexerOf(c)) - 1

\* find(true) with match 0 selected: none, and the seed is dropped
ReverseEnd(c) ==
    (/\ FindReturns(c, TRUE) /\ NoRescanDue(c) /\ Selected(c)
     /\ getCurrentMatchNumber(IndexerOf(c)) = 0) =>
        /\ last'.ret = RetFalse
        /\ ~cursor'[c].atOccurrence
        /\ cursor'[c].currentPosition = None

(* C28: reverse traversal.  On a freshly scanned cursor with no position   *)
(* set and n >= 1 matches, find(true) returns match n - 1; with match k    *)
(* selected it returns match k - 1 while there is one; the call after      *)
(* match 0 returns none, and the find(true) that follows starts again from *)
(* the document end with match n - 1.  This holds for n = 1 too.           *)
C28_ReverseTraversal ==
    [][\A c \in DOMAIN cursor : ReverseFirst(c) /\ ReverseStep(c) /\ ReverseEnd(c)]_vars

\* The traversal on the tables of two matches or more
C28_ReverseTraversalOfSeveral ==
    [][\A c \in DOMAIN cursor :
          (HasTable(c) /\ Len(TableOf(c)) >= 2) =>
              ReverseFirst(c) /\ ReverseStep(c) /\ ReverseEnd(c)]_vars

---------------------------------------------------------------------------
(* The claims about the pure functions *)

\* The match numbers of the array whose start lies in the search direction
\* from pos
InDirectionOf(array, pos, reverse) ==
    {k \in 0..(itemCount(array) - 1) :
        IF reverse THEN getGroupValue(array, k, 0) <= pos
        ELSE getGroupValue(array, k, 0) >= pos}

Least(S) == CHOOSE k \in S : \A j \in S : k <= j
Greatest(S) == CHOOSE k \in S : \A j \in S : k >= j

C30_PositionRoundTrip ==
    last.op = "_createPosFromIndex" => last.ret = last.pos

\* The position converted is on an empty line that is not the first
C30_Witness ==
    /\ last.op = "_createPosFromIndex"
    /\ last.pos.line >= 1
    /\ Split(docText[last.doc], LineSeparator)[last.pos.line + 1] = <<>>
    /\ last.ret = last.pos

\* The position converted is the end of a line that has characters and is
\* not the last line
C30_WitnessEndOfLine ==
    /\ last.op = "_createPosFromIndex"
    /\ last.pos.ch >= 1
    /\ last.pos.ch = Len(Split(docText[last.doc], LineSeparator)[last.pos.line + 1])
    /\ last.pos.line + 1 < Len(Split(docText[last.doc], LineSeparator))
    /\ last.ret = last.pos

\* The line index of the document of the last conversion
LineIndexOfLast == _createLineCharacterCountIndex(docText[last.doc], LineSeparator)

\* The offset at which line i (0-based) of a line index starts
StartOfLine(L, i) == IF i > 0 THEN L[i] ELSE 0

(* C31: offset round trip.  For every document and every offset below the  *)
(* character count of its line index, the offset of the position of the    *)
(* offset (searched from line 0) is the offset again, and the position's   *)
(* line i has L[i-1] <= offset < L[i], with L[-1] = 0.                     *)
C31_OffsetRoundTrip ==
    last.op = "_indexFromPos" =>
        /\ last.ret = last.off
        /\ last.pos.line >= 0 /\ last.pos.line < Len(LineIndexOfLast)
        /\ StartOfLine(LineIndexOfLast, last.pos.line) <= last.off
        /\ last.off < LineIndexOfLast[last.pos.line + 1]

\* The offset converted lies past the first character of a line that is not
\* the first
C31_Witness ==
    /\ last.op = "_indexFromPos"
    /\ last.pos.line >= 1 /\ last.pos.ch >= 1
    /\ last.ret = last.off

---------------------------------------------------------------------------
(* The claims about the group array *)

\* The index of the last group of the array of the last call
LastGroupIndex == Len(last.array) - GroupSize

\* The embedded index is the sentinel or the index of a group of the array
GroupIndexValid ==
    \/ last.current = 0 - GroupSize
    \/ \E k \in 0..(itemCount(last.array) - 1) : last.current = k * GroupSize

\* nextGroupIndex from the sentinel and from the last group
NextGroupIndexAtEnds ==
    /\ (last.op = "nextGroupIndex" /\ last.before = 0 - GroupSize /\ Len(last.array) > 0) =>
           (last.current = 0 /\ last.ret = 0)
    /\ (last.op = "nextGroupIndex" /\ last.before = LastGroupIndex) =>
           (last.current = 0 - GroupSize /\ last.ret = JsFalse)

\* prevGroupIndex from the first group
PrevGroupIndexAtStart ==
    (last.op = "prevGroupIndex" /\ last.before = 0 /\ Len(last.array) > 0) =>
        (last.current = 0 - GroupSize /\ last.ret = JsFalse)

\* prevGroupIndex from the sentinel, as the mirror image of nextGroupIndex:
\* to the last group
PrevGroupIndexFromSentinel ==
    (last.op = "prevGroupIndex" /\ last.before = 0 - GroupSize /\ Len(last.array) > 0) =>
        (last.current = LastGroupIndex /\ last.ret = LastGroupIndex)

(* C32: group array stepping.  The embedded index is always the sentinel   *)
(* -g or the index of an existing group; nextGroupIndex from the sentinel  *)
(* moves to group 0, and from the last group returns false and resets to   *)
(* -g; prevGroupIndex from the first group returns false and resets to -g, *)
(* and from the sentinel it is the mirror image of nextGroupIndex: it      *)
(* moves to the last group.                                                *)
C32_GroupArrayStepping ==
    /\ GroupIndexValid
    /\ NextGroupIndexAtEnds
    /\ PrevGroupIndexAtStart
    /\ PrevGroupIndexFromSentinel

\* The stepping without prevGroupIndex from the sentinel
C32_SteppingFromGroups == GroupIndexValid /\ NextGroupIndexAtEnds /\ PrevGroupIndexAtStart

---------------------------------------------------------------------------
(* The claims about the operations that only read *)

ReadOnlyOps ==
    {"getMatchCount", "getCurrentMatchNumber", "getDocCharacterCount", "forEachMatch",
     "forEachMatchWithinRange", "createMatchedLinePattern"}

(* C33: read-only operations keep the navigation state.  When the cursor's *)
(* results are current (its document is indexed at the document's revision *)
(* and no query change is pending), getMatchCount, getCurrentMatchNumber,  *)
(* getDocCharacterCount, forEachMatch, forEachMatchWithinRange and         *)
(* createMatchedLinePattern return and leave the match table, the selected *)
(* match number, currentPosition and atOccurrence as they were.            *)
C33_ReadOnlyOperations ==
    [][\A c \in DOMAIN cursor :
          (last'.op \in ReadOnlyOps /\ last'.c = c /\ NoRescanDue(c)) =>
              /\ ~last'.threw
              /\ cursor'[c].regexIndexer = cursor[c].regexIndexer
              /\ cursor'[c].currentPosition = cursor[c].currentPosition
              /\ cursor'[c].atOccurrence = cursor[c].atOccurrence]_vars

\* The line pattern was made with the second match or a later one selected:
\* the selection outlived the call
C33_Witness ==
    /\ last.op = "createMatchedLinePattern" /\ ~last.threw
    /\ Selected(last.c)
    /\ NumberOf(last.c) >= 1
    /\ cursor[last.c].atOccurrence

---------------------------------------------------------------------------
(* The claims about navigation across a rescan *)

\* The revision of the cursor's document changed with a match selected
ChangedWhileSelected(c) ==
    /\ HasTable(c) /\ Selected(c)
    /\ _needToIndexDocument(documentMap, cursor[c].doc[1])

\* The (from, to) range of the k-th match (0-based) of an indexer
RangeIn(indexer, k) == MatchAt(indexer, k * GroupSize)

\* The matches of the indexer that start at or after pos
AtOrAfter(indexer, pos) ==
    {k \in 0..(itemCount(indexer.array) - 1) : PosLeq(pos, RangeIn(indexer, k).from)}

\* The match of S that starts first in the text
FirstStarting(indexer, S) ==
    CHOOSE k \in S : \A j \in S : PosLeq(RangeIn(indexer, k).from, RangeIn(indexer, j).from)

\* The match find(false) is to return when it seeds from pos
FirstFrom(indexer, pos) ==
    IF itemCount(indexer.array) = 0 THEN RetFalse
    ELSE IF AtOrAfter(indexer, pos) # {}
    THEN Found(RangeIn(indexer, FirstStarting(indexer, AtOrAfter(indexer, pos))))
    ELSE Found(RangeIn(indexer, FirstStarting(indexer, 0..(itemCount(indexer.array) - 1))))

\* The operation after the change rescans: no match is selected, and the
\* position is retained
RescanDeselects(c) ==
    (ChangedWhileSelected(c) /\ Returns(c, {"getMatchCount", "getCurrentMatchNumber"})) =>
        /\ getCurrentMatchNumber(cursor'[c].regexIndexer[1]) = 0 - 1
        /\ last'.op = "getCurrentMatchNumber" => last'.ret = 0 - 1
        /\ cursor'[c].currentPosition = cursor[c].currentPosition

\* find(false) after the change, as the next operation or after the rescan
FindAcrossRescan(c) ==
    (/\ FindReturns(c, FALSE)
     /\ cursor[c].currentPosition # None
     /\ ChangedWhileSelected(c) \/ (NoRescanDue(c) /\ ~Selected(c))) =>
        /\ last'.noCurrent
        /\ last'.ret = FirstFrom(cursor'[c].regexIndexer[1], cursor[c].currentPosition[1].from)

(* C34: navigation across a rescan.  When the document's revision changes  *)
(* while match k is selected, the rescan the next operation makes leaves   *)
(* no match selected (getCurrentMatchNumber() = -1), and the next          *)
(* find(false) seeds from the retained currentPosition: it returns the     *)
(* first match of the new text that starts at or after the start position  *)
(* of the match returned before, the first match of the document if there  *)
(* is none, and never a match before that position.                        *)
C34_NavigationAcrossRescan ==
    [][\A c \in DOMAIN cursor : RescanDeselects(c) /\ FindAcrossRescan(c)]_vars

\* The same for the positions that are positions of the new text too
FindAcrossRescanInText(c) ==
    (/\ FindReturns(c, FALSE)
     /\ cursor[c].currentPosition # None
     /\ ChangedWhileSelected(c) \/ (NoRescanDue(c) /\ ~Selected(c))
     /\ cursor[c].currentPosition[1].from \in PositionsOf(docText[cursor[c].doc[1]])) =>
        /\ last'.noCurrent
        /\ last'.ret = FirstFrom(cursor'[c].regexIndexer[1], cursor[c].currentPosition[1].from)

\* The navigation across a rescan where the retained position is a position
\* of the new text
C34_NavigationFromPositionInText ==
    [][\A c \in DOMAIN cursor : RescanDeselects(c) /\ FindAcrossRescanInText(c)]_vars

---------------------------------------------------------------------------
(* The claims about the document cache *)

\* The operations of a cursor that refresh before they act
RefreshOps ==
    {"find", "getMatchCount", "getCurrentMatchNumber", "forEachMatch",
     "forEachMatchWithinRange", "createMatchedLinePattern",
     "scanDocumentAndStoreResultsInCursor"}

\* The cache entry of the document's current text at its current revision
CurrentEntry(d) ==
    Some([text |-> docText[d],
          index |-> _createLineCharacterCountIndex(docText[d], LineSeparator),
          generation |-> docGeneration[d]])

\* The step is a refreshing operation on document d
RefreshesDocument(d) ==
    \/ last'.op = "scanDocumentForMatches" /\ last'.properties.document = d
    \/ /\ last'.op \in RefreshOps
       /\ cursor[last'.c].doc = Some(d)

(* C35: document cache consistency.  Immediately after an operation that   *)
(* refreshes (find, getMatchCount, getCurrentMatchNumber, forEachMatch,    *)
(* forEachMatchWithinRange, createMatchedLinePattern,                      *)
(* scanDocumentAndStoreResultsInCursor, scanDocumentForMatches) on         *)
(* document d, the cache entry of d has d's current revision and the text  *)
(* and line index of d's current text; and an entry is rewritten only when *)
(* its revision differs from the document's.                               *)
C35_CacheConsistency ==
    [][\A d \in DOMAIN docText :
          /\ RefreshesDocument(d) => documentMap'[d] = CurrentEntry(d)'
          /\ documentMap'[d] # documentMap[d] => _needToIndexDocument(documentMap, d)]_vars

\* A scan without a cursor has refreshed the entry of an edited document
C35_Witness ==
    /\ last.op = "scanDocumentForMatches"
    /\ docGeneration[last.properties.document] >= 1
    /\ documentMap[last.properties.document] = CurrentEntry(last.properties.document)

---------------------------------------------------------------------------
(* The claims about the line pattern *)

\* The line the k-th match (1-based) of the cursor's table starts on
LineOfMatch(c, k) == EntryRange(c, k).from.line

\* Bucket j of B holds a line a match of the table starts on
BucketHasMatch(c, j, B, lineCount) ==
    \E k \in 1..Len(TableOf(c)) : (LineOfMatch(c, k) * B) \div lineCount = j

\* Every index written is an index of the array
WritesInRange(c, B, lineCount) ==
    \A k \in 1..Len(TableOf(c)) :
        SlotOfLine(LineOfMatch(c, k), lineCount, B) \in 0..(B - 1)

(* C36: line pattern.  For every bucket count B >= 1,                      *)
(* createMatchedLinePattern(B) returns an array of length B in which       *)
(* bucket j is 1 if and only if some match of the table starts on a line l *)
(* with floor(l * B / lineCount) = j, and is 0 otherwise; no index outside *)
(* [0, B) is written.                                                      *)
C36_LinePattern ==
    (last.op = "createMatchedLinePattern" /\ ~last.threw) =>
        /\ Len(last.ret) = last.levelOfDetail
        /\ \A j \in 0..(last.levelOfDetail - 1) :
              last.ret[j + 1] =
                  IF BucketHasMatch(last.c, j, last.levelOfDetail, last.lines) THEN 1 ELSE 0
        /\ WritesInRange(last.c, last.levelOfDetail, last.lines)

\* The array has the length asked for, holds only 0 and 1, and every index
\* written is inside it
C36_PatternInRange ==
    (last.op = "createMatchedLinePattern" /\ ~last.threw) =>
        /\ Len(last.ret) = last.levelOfDetail
        /\ \A j \in 1..Len(last.ret) : last.ret[j] \in {0, 1}
        /\ WritesInRange(last.c, last.levelOfDetail, last.lines)

---------------------------------------------------------------------------
(* View command handlers: the font size commands                           *)
(*                                                                         *)
(* A font size style is a number and its unit.  Sizes are counted in       *)
(* SizeScale-ths of the unit, so that the decimals validFont admits        *)
(* ("12.5px") are states of the model; halves are doubles, and adding 1 to *)
(* them is exact.  Sizes in em step by the double 0.1 and are not part of  *)
(* this model: the styles drawn are sizes in px and styles in units that   *)
(* validFont rejects.  The state is in `last`: the font size of the        *)
(* theme's own style sheet, the style element the commands add, the        *)
(* fontSizeStyle view state, and what the last command did.                *)

MIN_FONT_SIZE == 1
MAX_FONT_SIZE == 72
SizeScale == 2

FontStyle(size, units) == [size |-> size, units |-> units]

\* no style element, and the view state undefined
NoStyle == FontStyle(0, "")

\* the styles the theme may give .CodeMirror
ThemeStyles ==
    {FontStyle(n, "px") : n \in (MIN_FONT_SIZE * SizeScale)..(MAX_FONT_SIZE * SizeScale)}
        \cup {FontStyle(12 * SizeScale, "pt"), FontStyle(100 * SizeScale, "%")}

\* $(".CodeMirror").css("font-size"): the added style is !important
CssFontSize(dynamic, theme) == IF dynamic = NoStyle THEN theme ELSE dynamic

\* fsStyle.search(validFont) !== -1
validFont(fsStyle) == fsStyle.units \in {"px", "em"}

\* parseInt(x, 10) of a difference of sizes
ParseInt(x) == IF x >= 0 THEN x \div SizeScale ELSE 0 - ((0 - x) \div SizeScale)

FontSizeBelowMinimum(fsNew) == fsNew < MIN_FONT_SIZE * SizeScale

\* fsNew < MIN_FONT_SIZE * delta || fsNew > MAX_FONT_SIZE * delta, delta 1
FontSizeOutOfRange(fsNew) ==
    fsNew < MIN_FONT_SIZE * SizeScale \/ fsNew > MAX_FONT_SIZE * SizeScale

\* _setSizeAndRestoreScroll(fontSizeStyle): the style element afterwards and
\* the adjustment of the fontSizeChange event (0: no event)
_setSizeAndRestoreScroll(dynamic, theme, fontSizeStyle) ==
    [dynamic |-> fontSizeStyle,
     fontSizeChange |-> ParseInt(CssFontSize(fontSizeStyle, theme).size
                                    - CssFontSize(dynamic, theme).size)]

\* _adjustFontSize(adjustment) on a size in px
_adjustFontSize(dynamic, theme, fontSizeStyle, adjustment) ==
    LET fsStyle == CssFontSize(dynamic, theme)
        fsNew == fsStyle.size + SizeScale * adjustment
        fsStr == FontStyle(fsNew, fsStyle.units)
        set == _setSizeAndRestoreScroll(dynamic, theme, fsStr)
    IN  IF ~validFont(fsStyle) \/ FontSizeOutOfRange(fsNew)
        THEN [ret |-> FALSE, dynamic |-> dynamic, fontSizeStyle |-> fontSizeStyle,
              fontSizeChange |-> 0]
        ELSE [ret |-> TRUE, dynamic |-> set.dynamic, fontSizeStyle |-> fsStr,
              fontSizeChange |-> set.fontSizeChange]

InitFont ==
    /\ docText = [d \in {"d1"} |-> <<>>]
    /\ NoDocumentIndexed({"d1"})
    /\ cursor = [c \in {} |-> NewCursor]
    /\ last \in {[op |-> "none", adjustment |-> 0, theme |-> theme, dynamic |-> NoStyle,
                   fontSizeStyle |-> NoStyle, fontSizeChange |-> 0, ret |-> FALSE] :
                      theme \in ThemeStyles}

AdjustFontSize(adjustment) ==
    LET r == _adjustFontSize(last.dynamic, last.theme, last.fontSizeStyle, adjustment)
    IN  /\ last' = [op |-> "_adjustFontSize", adjustment |-> adjustment,
                    theme |-> last.theme, dynamic |-> r.dynamic,
                    fontSizeStyle |-> r.fontSizeStyle,
                    fontSizeChange |-> r.fontSizeChange, ret |-> r.ret]
        /\ UNCHANGED <<docText, docGeneration, documentMap, cursor>>

_handleIncreaseFontSize == AdjustFontSize(1)

_handleDecreaseFontSize == AdjustFontSize(0 - 1)

_handleRestoreFontSize ==
    LET set == _setSizeAndRestoreScroll(last.dynamic, last.theme, NoStyle)
    IN  /\ last' = [op |-> "_handleRestoreFontSize", adjustment |-> 0,
                    theme |-> last.theme, dynamic |-> set.dynamic,
                    fontSizeStyle |-> NoStyle,
                    fontSizeChange |-> set.fontSizeChange, ret |-> FALSE]
        /\ UNCHANGED <<docText, docGeneration, documentMap, cursor>>

NextFont == _handleIncreaseFontSize \/ _handleDecreaseFontSize \/ _handleRestoreFontSize

SpecFont == InitFont /\ [][NextFont]_vars

\* the font size a command finds, and the size it asks for
FontSizeOfLast == CssFontSize(last.dynamic, last.theme)

\* the size is a size in px between MIN_FONT_SIZE and MAX_FONT_SIZE
FontSizeWithinBounds ==
    /\ FontSizeOfLast.units = "px"
    /\ FontSizeOfLast.size >= MIN_FONT_SIZE * SizeScale
    /\ FontSizeOfLast.size <= MAX_FONT_SIZE * SizeScale

\* a command is refused exactly when the size is not one in px or em or the
\* new size would leave the range, and a refused command changes neither the
\* added style nor the view state; an accepted one applies and stores the
\* new size
AdjustFontSizeStep ==
    last'.op = "_adjustFontSize" =>
        LET fsNew == FontSizeOfLast.size + SizeScale * last'.adjustment
            refused == \/ FontSizeOfLast.units \notin {"px", "em"}
                       \/ fsNew < MIN_FONT_SIZE * SizeScale
                       \/ fsNew > MAX_FONT_SIZE * SizeScale
        IN  /\ last'.ret = ~refused
            /\ refused => /\ last'.dynamic = last.dynamic
                          /\ last'.fontSizeStyle = last.fontSizeStyle
            /\ ~refused => /\ last'.dynamic = FontStyle(fsNew, "px")
                           /\ last'.fontSizeStyle = FontStyle(fsNew, "px")

\* C37: a font size in px that starts within [1, 72] stays within [1px, 72px]
\* under the increase and decrease commands; a command whose new size would
\* leave the range, or whose current size is not in px or em, returns false
\* and changes neither the applied style nor the fontSizeStyle view state.
C37_FontSizeBounds ==
    /\ [](last.theme.units = "px" => FontSizeWithinBounds)
    /\ [][AdjustFontSizeStep]_vars

\* an increase refused at 72px, after the commands had raised the size from
\* the theme's to 72px
C37_Witness ==
    /\ last.op = "_adjustFontSize"
    /\ last.ret = FALSE
    /\ last.adjustment = 1
    /\ last.dynamic = FontStyle(MAX_FONT_SIZE * SizeScale, "px")
    /\ last.fontSizeStyle = last.dynamic
    /\ last.theme.size < last.dynamic.size

====
